---- MODULE Spec2Model ----
(***************************************************************************)
(* A model of the bugboy emulator core: the DmgCpu register file and its  *)
(* fetch/decode/execute tick (gb_cpu.rs), the opcode tables               *)
(* (gb_opcodes.rs), the MemoryController's 64KB image and its write       *)
(* policy (gb_mem.rs) and the HardwareBus timing hook (gb_hw_bus.rs).     *)
(*                                                                         *)
(* Bytes are integers 0..255 and addresses integers 0..65535; every       *)
(* operation keeps the width the Rust code gives it.  The 65536-byte      *)
(* array is stored sparsely: an address outside DOMAIN ram holds 0, and   *)
(* Store keeps that form canonical so that equal arrays are equal values. *)
(***************************************************************************)
EXTENDS Integers, Sequences, FiniteSets, TLC

VARIABLES
    cpu,      \* the DmgCpu struct: a b c d e f h l sp pc ime halt stop clock
    ram,      \* MemoryController.ram, sparse (absent address = 0)
    bus,      \* HardwareBus.cycles
    hook,     \* the arguments of the sync calls made by the last operation
    acc,      \* the number of memory-image accesses made by the last operation
    result,   \* what the last operation returned: "None", "Ok", "Err", "Panic"
    log,      \* the opcodes pushed on the caller's Vec<TraceLog>
    last,     \* the last operation performed, with its arguments and the
              \* DmgCpu and memory image it started from
    ret,      \* the value the last pop_address_u16 returned (-1: none yet)
    rom0,     \* the memory image right after construction
    steps,    \* the number of operations performed so far
    run       \* DmgBoy::run: the crate root it belongs to, the ticks left in
              \* its budget and where it is ("loop", "returned", "aborted")

vars == <<cpu, ram, bus, hook, acc, result, log, last, ret, rom0, steps, run>>

----------------------------------------------------------------------------
(* Bounds of the model. *)

\* ticks performed in one behaviour of Spec
MaxTicks == 3
\* writes performed in one behaviour of SpecMem
MaxWrites == 2
\* pushes and pops performed in one behaviour of SpecStack
MaxStackOps == 3

\* the tick budget DmgBoy::run starts with (100_000 in the code)
RunBudget == 3
\* calls made on one RamAddress in one behaviour of SpecAddr
MaxAddrCalls == 2
\* rotate and shift helpers called in one behaviour of SpecRot
MaxRotCalls == 1

----------------------------------------------------------------------------
(* Fixed-width arithmetic. *)

Byte == 0 .. 255
Word == 0 .. 65535

Pow2(n) == 2 ^ n

Bit(x, i) == (x \div Pow2(i)) % 2

\* x & y, bit by bit from the low end
RECURSIVE And(_, _)
And(x, y) ==
    IF x = 0 \/ y = 0 THEN 0
    ELSE (x % 2) * (y % 2) + 2 * And(x \div 2, y \div 2)

\* x | y
Or(x, y) == x + y - And(x, y)

\* x ^ y
Xor(x, y) == x + y - 2 * And(x, y)

\* !x on a u8
Not8(x) == 255 - x

\* x >> n
Shr(x, n) == x \div Pow2(n)

\* x << n on a u8 / on a u16 (bits shifted out are lost)
Shl8(x, n) == (x * Pow2(n)) % 256
Shl16(x, n) == (x * Pow2(n)) % 65536

\* wrapping_add / wrapping_sub
WrapAdd8(x, y) == (x + y) % 256
WrapSub8(x, y) == (x - y + 256) % 256
WrapAdd16(x, y) == (x + y) % 65536
WrapSub16(x, y) == (x - y + 65536) % 65536

\* `x as u16`: the byte taken as unsigned (the fault C39 is tried against)
ZeroExt(x) == x

\* `x as i8 as u16`: sign extension of a byte to 16 bits
SignExt(x) == IF x >= 128 THEN x + 65280 ELSE x

----------------------------------------------------------------------------
(* gb_mem.rs: RamAddress. *)

ADDR_MAX == \hFFFF
IE_ADDR == \hFFFF

\* RamAddress::set
AddrSet(val) == And(val, ADDR_MAX)

\* RamAddress::inc had it added without wrapping (the fault C15 is tried
\* against)
AddrIncNoWrap(v, amt) == v + amt

\* RamAddress::inc: the new value of the receiver (also the value returned)
AddrInc(v, amt) == And(WrapAdd16(v, amt), ADDR_MAX)

\* RamAddress::dec
AddrDec(v, amt) == And(WrapSub16(v, amt), ADDR_MAX)

\* RamAddress::post_inc had it returned the receiver after the addition
\* (the fault C24 is tried against)
AddrPostIncReturnsNew(v, amt) ==
    [ret |-> AddrInc(v, amt), self |-> AddrInc(v, amt)]

\* RamAddress::post_inc: the copy returned and the receiver afterwards
AddrPostInc(v, amt) == [ret |-> v, self |-> AddrInc(v, amt)]

\* RamAddress::post_dec
AddrPostDec(v, amt) == [ret |-> v, self |-> AddrDec(v, amt)]

\* increment_16 had it left the high byte alone on the wrap of the low
\* byte (the fault C32 is tried against)
Increment16LowOnly(high, low) == <<high, WrapAdd8(low, 1)>>

\* increment_16 / decrement_16: <<high, low>> after the call
Increment16(high, low) ==
    LET nl == WrapAdd8(low, 1)
    IN  IF low + 1 > 255 THEN <<WrapAdd8(high, 1), nl>> ELSE <<high, nl>>

Decrement16(high, low) ==
    LET nl == WrapSub8(low, 1)
    IN  IF low - 1 < 0 THEN <<WrapSub8(high, 1), nl>> ELSE <<high, nl>>

----------------------------------------------------------------------------
(* gb_mem.rs: MemoryController. *)

\* self.ram[addr]
Read(r, addr) == IF addr \in DOMAIN r THEN r[addr] ELSE 0

\* self.ram[idx] = val
Store(r, idx, val) ==
    IF val = 0
    THEN [x \in DOMAIN r \ {idx} |-> r[x]]
    ELSE [x \in DOMAIN r \cup {idx} |-> IF x = idx THEN val ELSE r[x]]

\* the match arms of MemoryController::write that return before the store
WriteRejected(idx) ==
    \/ idx \in \h0000 .. \h00FF
    \/ idx \in \h4000 .. \h7FFF
    \/ idx \in \hFEA0 .. \hFEFF

\* MemoryController::write had it no second store for work RAM and its
\* echo (the fault C2 is tried against)
MemWriteNoEcho(r, idx, val) ==
    IF WriteRejected(idx) THEN r ELSE Store(r, idx, val)

\* MemoryController::write: the image after the call
MemWrite(r, idx, val) ==
    IF WriteRejected(idx) THEN r
    ELSE IF idx \in \hC000 .. \hDFFF
         THEN Store(Store(r, idx + \h2000, val), idx, val)
    ELSE IF idx \in \hE000 .. \hFDFF
         THEN Store(Store(r, idx - \h2000, val), idx, val)
    ELSE Store(r, idx, val)

\* MemoryController::new: zeroed RAM with the cartridge's ROM window copied
\* into 0x0000..0x7FFF; `rom` is that window, sparse like the image
MemNew(rom) == [x \in {y \in DOMAIN rom : y < \h8000 /\ rom[y] # 0} |-> rom[x]]

----------------------------------------------------------------------------
(* gb_hw_bus.rs: HardwareBus. *)

\* HardwareBus::new
BusNew == 0

\* HardwareBus::sync: `self.cycles == count;` compares and stores nothing
BusSync(cycles, count) == cycles

----------------------------------------------------------------------------
(* gb_cpu.rs: the flag masks and the flag helpers. *)

ZERO_FLAG == \h80
SUBT_FLAG == \h40
HALF_CARRY_FLAG == \h20
CARRY_FLAG == \h10

\* set_flag / reset_flag / set_flag_conditional, on the value of self.f
SetFlag(f, mask) == Or(f, mask)
ResetFlag(f, mask) == And(f, Not8(mask))
SetFlagConditional(f, mask, test) ==
    IF test THEN SetFlag(f, mask) ELSE ResetFlag(f, mask)

\* is_flag_set
IsFlagSet(f, flag) == And(f, flag) = flag

\* get_carry_value had it shifted the Carry flag down to bit 0, so that CP
\* would subtract it with the operand (the fault C38 is tried against)
GetCarryValueBitZero(f) == Shr(And(f, CARRY_FLAG), 4)

\* get_carry_value
GetCarryValue(f) == Shr(And(f, CARRY_FLAG), 5)

----------------------------------------------------------------------------
(* gb_cpu.rs: the ALU primitives.  Each takes the value of self.f and the *)
(* operands and gives [r |-> the byte returned, f |-> self.f afterwards,  *)
(* ovf |-> whether an overflow-checked operation overflowed].             *)

AddNoZcheck(f, a, b) ==
    LET hr == WrapAdd8(And(a, \h0F), And(b, \h0F))
        f1 == SetFlagConditional(f, HALF_CARRY_FLAG, hr > \h0F)
        f2 == SetFlagConditional(f1, CARRY_FLAG, a + b > 255)
    IN  [r |-> WrapAdd8(a, b), f |-> ResetFlag(f2, SUBT_FLAG), ovf |-> FALSE]

\* add had it left the Zero flag to its caller (the fault C11 is tried
\* against)
AddWithoutZcheck(f, a, b) == AddNoZcheck(f, a, b)

Add(f, a, b) ==
    LET x == AddNoZcheck(f, a, b)
    IN  [x EXCEPT !.f = SetFlagConditional(@, ZERO_FLAG, x.r = 0)]

AddWithCarry(f, a, b) ==
    LET carry == GetCarryValue(f)
        t == Add(f, a, carry)
    IN  Add(t.f, t.r, b)

\* subtract_no_zcheck had it taken Half-Carry from the borrow of the whole
\* byte (the fault C30 is tried against)
SubtractNoZcheckHalfFromBorrow(f, a, b) ==
    LET f1 == SetFlagConditional(f, HALF_CARRY_FLAG, a - b < 0)
        f2 == SetFlagConditional(f1, CARRY_FLAG, a - b < 0)
    IN  [r |-> WrapSub8(a, b), f |-> SetFlag(f2, SUBT_FLAG), ovf |-> FALSE]

SubtractNoZcheck(f, a, b) ==
    LET hr == WrapSub8(And(a, \h0F), And(b, \h0F))
        f1 == SetFlagConditional(f, HALF_CARRY_FLAG, hr > \h0F)
        f2 == SetFlagConditional(f1, CARRY_FLAG, a - b < 0)
    IN  [r |-> WrapSub8(a, b), f |-> SetFlag(f2, SUBT_FLAG), ovf |-> FALSE]

Subtract(f, a, b) ==
    LET x == SubtractNoZcheck(f, a, b)
    IN  [x EXCEPT !.f = SetFlagConditional(@, ZERO_FLAG, x.r = 0)]

\* `let n = b + carry;` is an overflow-checked u8 addition
SubtractWithCarry(f, a, b) ==
    LET carry == GetCarryValue(f)
        x == Subtract(f, a, WrapAdd8(b, carry))
    IN  [x EXCEPT !.ovf = b + carry > 255]

\* set_logic_flags: self.f afterwards
SetLogicFlags(f, res, set_half_carry) ==
    LET f1 == And(f, Not8(Or(SUBT_FLAG, CARRY_FLAG)))
        f2 == IF set_half_carry THEN Or(f1, HALF_CARRY_FLAG)
              ELSE And(f1, Not8(HALF_CARRY_FLAG))
    IN  SetFlagConditional(f2, ZERO_FLAG, res = 0)

\* add_to_u16: `a as u16 + b` is an overflow-checked u16 addition
AddToU16(f, a, b) ==
    [r |-> WrapAdd16(a, b), f |-> Add(f, a, b % 256).f, ovf |-> a + b > 65535]

\* increment had it set Carry on the wrap from 0xFF, as add does (the fault
\* C31 is tried against)
IncrementSetsCarry(f, byte) ==
    LET f1 == SetFlagConditional(f, HALF_CARRY_FLAG, And(byte, \h0F) = \h0F)
        f2 == ResetFlag(f1, SUBT_FLAG)
        f3 == SetFlagConditional(f2, CARRY_FLAG, byte + 1 > 255)
        r == WrapAdd8(byte, 1)
    IN  [r |-> r, f |-> SetFlagConditional(f3, ZERO_FLAG, r = 0), ovf |-> FALSE]

Increment(f, byte) ==
    LET f1 == SetFlagConditional(f, HALF_CARRY_FLAG, And(byte, \h0F) = \h0F)
        f2 == ResetFlag(f1, SUBT_FLAG)
        r == WrapAdd8(byte, 1)
    IN  [r |-> r, f |-> SetFlagConditional(f2, ZERO_FLAG, r = 0), ovf |-> FALSE]

Decrement(f, byte) ==
    LET f1 == SetFlag(f, SUBT_FLAG)
        f2 == SetFlagConditional(f1, HALF_CARRY_FLAG, And(byte, \h0F) = \h00)
        r == WrapSub8(byte, 1)
    IN  [r |-> r, f |-> SetFlagConditional(f2, ZERO_FLAG, r = 0), ovf |-> FALSE]

\* the rotates and shifts had they left Half-Carry as it was (the fault C28
\* is tried against)
RotFlagsKeepHalfCarry(f, carry, res) ==
    LET f1 == SetFlagConditional(f, CARRY_FLAG, carry)
        f2 == SetFlagConditional(f1, ZERO_FLAG, res = 0)
    IN  ResetFlag(f2, SUBT_FLAG)

\* the flag tail shared by the rotates and shifts
RotFlags(f, carry, res) ==
    LET f1 == SetFlagConditional(f, CARRY_FLAG, carry)
        f2 == SetFlagConditional(f1, ZERO_FLAG, res = 0)
    IN  ResetFlag(f2, Or(SUBT_FLAG, HALF_CARRY_FLAG))

DoRlc(f, value) ==
    LET res == Or(Shl8(value, 1), Shr(value, 7))
    IN  [r |-> res, f |-> RotFlags(f, And(value, \h80) > 0, res), ovf |-> FALSE]

DoRl(f, value) ==
    LET res == Or(Shl8(value, 1), GetCarryValue(f))
    IN  [r |-> res, f |-> RotFlags(f, And(value, \h80) > 0, res), ovf |-> FALSE]

DoRrc(f, value) ==
    LET res == Or(Shr(value, 1), Shl8(value, 7))
    IN  [r |-> res, f |-> RotFlags(f, And(value, 1) > 0, res), ovf |-> FALSE]

DoRr(f, value) ==
    LET res == Or(Shr(value, 1), Shl8(GetCarryValue(f), 7))
    IN  [r |-> res, f |-> RotFlags(f, And(value, 1) = 1, res), ovf |-> FALSE]

DoSla(f, value) ==
    LET res == Shl8(value, 1)
    IN  [r |-> res, f |-> RotFlags(f, And(value, \h80) > 0, res), ovf |-> FALSE]

DoSra(f, value) ==
    LET res == Or(Shr(value, 1), And(value, \h80))
    IN  [r |-> res, f |-> RotFlags(f, And(value, 1) > 0, res), ovf |-> FALSE]

DoSrl(f, value) ==
    LET res == Shr(value, 1)
    IN  [r |-> res, f |-> RotFlags(f, And(value, 1) > 0, res), ovf |-> FALSE]

\* do_swap had it moved the low nibble up and dropped the high one (the
\* fault C13 is tried against)
DoSwapLowNibbleOnly(f, value) ==
    LET res == Shl8(And(value, \h0F), 4)
        f1 == SetFlagConditional(f, ZERO_FLAG, res = 0)
    IN  [r |-> res,
         f |-> ResetFlag(f1, Or(Or(SUBT_FLAG, HALF_CARRY_FLAG), CARRY_FLAG)),
         ovf |-> FALSE]

DoSwap(f, value) ==
    LET res == Or(Shl8(And(value, \h0F), 4), Shr(And(value, \hF0), 4))
        f1 == SetFlagConditional(f, ZERO_FLAG, res = 0)
    IN  [r |-> res,
         f |-> ResetFlag(f1, Or(Or(SUBT_FLAG, HALF_CARRY_FLAG), CARRY_FLAG)),
         ovf |-> FALSE]

\* do_daa had it left Half-Carry as it was (the fault C34 is tried against)
DoDaaKeepsHalfCarry(f, a) ==
    LET n == IsFlagSet(f, SUBT_FLAG)
        hc == IsFlagSet(f, HALF_CARRY_FLAG)
        c == IsFlagSet(f, CARRY_FLAG)
        s1 == IF hc THEN And(WrapSub16(a, \h06), \hFF) ELSE a
        s2 == IF c THEN WrapSub16(s1, \h06) ELSE s1
        a1 == IF hc \/ And(a, \h0F) > 9 THEN a + \h06 ELSE a
        a2 == IF c \/ a1 > \h9F THEN a1 + \h60 ELSE a1
        temp == IF n THEN s2 ELSE a2
        res == temp % 256
        f1 == SetFlagConditional(f, ZERO_FLAG, res = 0)
    IN  [r |-> res, f |-> SetFlagConditional(f1, CARRY_FLAG, temp > \hFF),
         ovf |-> n /\ c /\ s1 < \h06]

\* do_daa: r is self.a afterwards; `temp = temp - 0x06` is an
\* overflow-checked u16 subtraction
DoDaa(f, a) ==
    LET n == IsFlagSet(f, SUBT_FLAG)
        hc == IsFlagSet(f, HALF_CARRY_FLAG)
        c == IsFlagSet(f, CARRY_FLAG)
        s1 == IF hc THEN And(WrapSub16(a, \h06), \hFF) ELSE a
        s2 == IF c THEN WrapSub16(s1, \h06) ELSE s1
        a1 == IF hc \/ And(a, \h0F) > 9 THEN a + \h06 ELSE a
        a2 == IF c \/ a1 > \h9F THEN a1 + \h60 ELSE a1
        temp == IF n THEN s2 ELSE a2
        res == temp % 256
        f1 == SetFlagConditional(f, ZERO_FLAG, res = 0)
        f2 == SetFlagConditional(f1, CARRY_FLAG, temp > \hFF)
    IN  [r |-> res, f |-> ResetFlag(f2, HALF_CARRY_FLAG),
         ovf |-> n /\ c /\ s1 < \h06]

----------------------------------------------------------------------------
(* gb_cpu.rs: DmgCpu.  The methods act on a machine value m: the fields   *)
(* of the DmgCpu struct together with the memory image (ram), the bus     *)
(* (bus), the sync calls made so far (hook), the image accesses made so   *)
(* far (acc), the trace log (log) and whether an overflow-checked         *)
(* arithmetic operation has overflowed (ovf).                             *)

CpuFields ==
    {"a", "b", "c", "d", "e", "f", "h", "l", "sp", "pc",
     "ime", "halt", "stop", "clock"}

\* DmgCpu::new
CpuNew ==
    [a |-> 0, b |-> 0, c |-> 0, d |-> 0, e |-> 0, f |-> 0, h |-> 0, l |-> 0,
     sp |-> \hFFFE, pc |-> \h0100,
     ime |-> TRUE, halt |-> FALSE, stop |-> FALSE, clock |-> 0]

Machine(c, r, b, lg) ==
    c @@ [ram |-> r, bus |-> b, hook |-> <<>>, acc |-> 0, log |-> lg,
          ovf |-> FALSE]

CpuOf(m) == [k \in CpuFields |-> m[k]]

\* sync_hardware_bus
SyncHardwareBus(m) ==
    [m EXCEPT !.bus = BusSync(@, m.clock), !.hook = Append(@, m.clock)]

\* a direct self.mc.borrow().read(..): one access of the image
MemAccess(m) == [m EXCEPT !.acc = @ + 1]

\* a write had it stopped the engine when the controller refuses the address
\* (the fault C21 is tried against)
McWriteFaultStops(m, addr, val) ==
    [m EXCEPT !.ram = MemWrite(@, addr, val), !.acc = @ + 1,
              !.stop = @ \/ WriteRejected(addr)]

\* self.mc.borrow_mut().write(addr, val)
McWrite(m, addr, val) ==
    [m EXCEPT !.ram = MemWrite(@, addr, val), !.acc = @ + 1]

\* read_pc_mem_and_increment: the byte returned, and the machine afterwards
PcByte(m) == Read(m.ram, m.pc)

\* read_pc_mem_and_increment had it left the clock alone (the fault C17 is
\* tried against)
ReadPcMemAndIncrementNoClock(m) ==
    SyncHardwareBus([m EXCEPT !.pc = AddrInc(@, 1), !.acc = @ + 1])

ReadPcMemAndIncrement(m) ==
    SyncHardwareBus([m EXCEPT !.pc = AddrInc(@, 1), !.clock = @ + 4,
                              !.acc = @ + 1])

\* make_bc_address / make_de_address / make_hl_address / make_ffc_address
MakeBcAddress(m) == Or(Shl16(m.b, 8), m.c)
MakeDeAddress(m) == Or(Shl16(m.d, 8), m.e)
MakeHlAddress(m) == Or(Shl16(m.h, 8), m.l)
MakeFfcAddress(m) == Or(\hFF00, m.c)

\* make_ffn_address: the address made (the machine afterwards is
\* ReadPcMemAndIncrement(m))
MakeFfnAddress(m) == Or(\hFF00, PcByte(m))

\* read_address_pair: <<low, high>>, and the machine afterwards
AddressPair(m) == <<PcByte(m), PcByte(ReadPcMemAndIncrement(m))>>

ReadAddressPair(m) == ReadPcMemAndIncrement(ReadPcMemAndIncrement(m))

\* make_nn_address: the address made (the machine afterwards is
\* ReadAddressPair(m))
MakeNnAddress(m) == Or(Shl16(AddressPair(m)[2], 8), AddressPair(m)[1])

\* read_pc_as_address had it taken the first byte as the high byte (the
\* fault C9 is tried against)
PcAddressHighFirst(m) ==
    LET high == Read(m.ram, m.pc)
        low == Read(m.ram, AddrInc(m.pc, 1))
    IN  Or(Shl16(high, 8), low)

\* read_pc_as_address: the u16 returned, and the machine afterwards
PcAddress(m) ==
    LET low == Read(m.ram, m.pc)
        high == Read(m.ram, AddrInc(m.pc, 1))
    IN  Or(Shl16(high, 8), low)

ReadPcAsAddress(m) ==
    [m EXCEPT !.pc = AddrInc(AddrInc(@, 1), 1), !.acc = @ + 2]

\* do_jump_conditional
DoJumpConditional(m, test) ==
    LET dest == PcAddress(m)
        m1 == ReadPcAsAddress(m)
    IN  IF test THEN [m1 EXCEPT !.pc = AddrSet(dest)] ELSE m1

\* do_jump_relative_conditional
DoJumpRelativeConditional(m, test) ==
    LET offset == Read(m.ram, m.pc)
        m1 == SyncHardwareBus([m EXCEPT !.pc = AddrInc(@, 1), !.acc = @ + 1])
    IN  IF test THEN [m1 EXCEPT !.pc = AddrInc(@, SignExt(offset))] ELSE m1

\* push_address_parts
PushAddressParts(m, high, low) ==
    LET sp1 == AddrDec(m.sp, 1)
        m1 == SyncHardwareBus(McWrite([m EXCEPT !.sp = sp1], sp1, low))
        sp2 == AddrDec(sp1, 1)
    IN  SyncHardwareBus(McWrite([m1 EXCEPT !.sp = sp2], sp2, high))

\* push_address_u16: `addr & 0xFF00 >> 8` is addr & (0xFF00 >> 8)
PushAddressU16(m, addr) ==
    LET high == And(addr, Shr(\hFF00, 8)) % 256
        low == And(addr, \h00FF) % 256
    IN  PushAddressParts(m, high, low)

\* push_address
PushAddress(m, addr) == PushAddressU16(m, addr)

\* pop_address_parts: <<high, low>>, and the machine afterwards
AddressParts(m) == <<Read(m.ram, m.sp), Read(m.ram, AddrInc(m.sp, 1))>>

PopAddressParts(m) ==
    LET m1 == SyncHardwareBus([m EXCEPT !.sp = AddrInc(@, 1), !.acc = @ + 1])
    IN  SyncHardwareBus([m1 EXCEPT !.sp = AddrInc(@, 1), !.acc = @ + 1])

\* pop_address_u16: the u16 returned (the machine afterwards is
\* PopAddressParts(m))
AddressU16(m) == Or(Shl16(AddressParts(m)[1], 8), AddressParts(m)[2])

\* do_call_conditional had it read the target only when calling (the fault
\* C8 is tried against)
DoCallConditionalLazy(m, test) ==
    IF test
    THEN PushAddressU16([ReadPcAsAddress(m) EXCEPT !.pc = AddrSet(PcAddress(m))],
                        ReadPcAsAddress(m).pc)
    ELSE m

\* do_call_conditional
DoCallConditional(m, test) ==
    LET dest == PcAddress(m)
        m1 == ReadPcAsAddress(m)
    IN  IF test
        THEN PushAddressU16([m1 EXCEPT !.pc = AddrSet(dest)], m1.pc)
        ELSE m1

\* do_return_conditional
DoReturnConditional(m, test) ==
    IF test
    THEN [PopAddressParts(m) EXCEPT !.pc = AddrSet(AddressU16(m))]
    ELSE m

----------------------------------------------------------------------------
(* gb_opcodes.rs: the primary table and the fields of a CB second byte.  *)

\* enum OpCodes: the byte values that have a variant
OpCodes ==
    (0 .. 255) \ {\h37, \h3F, \hD3, \hDB, \hDD, \hE3, \hE4, \hEB, \hEC, \hED,
                  \hF4, \hFC, \hFD}

\* SecondOpType::from_u8: `(val & 0b11) >> 6`
SecondOpType(val) ==
    LET bits == Shr(And(val, 3), 6)
    IN  CASE bits = 0 -> "ROTATE_SHIFT"
          [] bits = 1 -> "BIT_CHECK"
          [] bits = 2 -> "RESET"
          [] bits = 3 -> "SET"

\* SecondOpAction::from_u8, as the variant's discriminant (`action as u8`):
\* RLC 0, RRC 1, RL 2, RR 3, SLA 4, SRA 5, SWAP 6, SRL 7
SecondOpAction(val) == Shr(And(val, \h38), 3)

\* SecondOpRegister::from_u8, as the variant's discriminant:
\* B 0, C 1, D 2, E 3, H 4, L 5, mHL 6, A 7
SecondOpRegister(val) == And(val, 7)

\* the DmgCpu field of an 8-bit operand code (6 is the byte at HL)
R8 == <<"b", "c", "d", "e", "h", "l", "mHL", "a">>

----------------------------------------------------------------------------
(* gb_cpu.rs: the CB-prefixed operations. *)

\* hand_rotate_shift_op
HandRotateShiftOp(f, value, action) ==
    CASE action = 0 -> DoRlc(f, value)
      [] action = 2 -> DoRl(f, value)
      [] action = 1 -> DoRrc(f, value)
      [] action = 3 -> DoRr(f, value)
      [] action = 4 -> DoSla(f, value)
      [] action = 5 -> DoSra(f, value)
      [] action = 7 -> DoSrl(f, value)
      [] action = 6 -> DoSwap(f, value)

\* decode_and_execute_cb_op
DecodeAndExecuteCbOp(m, sop) ==
    LET op_type == SecondOpType(sop)
        action == SecondOpAction(sop)
        register == SecondOpRegister(sop)
        bit_mask == Shl8(1, action)
        reg == R8[register + 1]
        hl == MakeHlAddress(m)
        val == Read(m.ram, hl)
        read_sync == SyncHardwareBus(MemAccess(m))
    IN  CASE op_type = "BIT_CHECK" ->
               IF register = 6
               THEN [read_sync EXCEPT
                        !.f = SetFlagConditional(@, ZERO_FLAG,
                                                 And(val, bit_mask) = 0)]
               ELSE [m EXCEPT
                        !.f = SetFlagConditional(@, ZERO_FLAG,
                                                 And(m[reg], bit_mask) = 0)]
          [] op_type = "SET" ->
               IF register = 6
               THEN SyncHardwareBus(McWrite(read_sync, hl, Or(val, bit_mask)))
               ELSE [m EXCEPT ![reg] = Or(@, bit_mask)]
          [] op_type = "RESET" ->
               IF register = 6
               THEN McWrite(MemAccess(m), hl, And(val, Not8(bit_mask)))
               ELSE [m EXCEPT ![reg] = And(@, Not8(bit_mask))]
          [] op_type = "ROTATE_SHIFT" ->
               IF register = 7
               THEN LET x == HandRotateShiftOp(m.f, m.a, action)
                    IN  [m EXCEPT !.a = x.r, !.f = x.f]
               ELSE IF register = 6
               THEN SyncHardwareBus(
                        McWrite(read_sync, hl, And(val, Not8(bit_mask))))
               ELSE [m EXCEPT ![reg] = And(@, Not8(bit_mask))]

----------------------------------------------------------------------------
(* gb_cpu.rs: the arms of the match in do_op, by family. *)

\* the branch conditions NZ, Z, NC, C (codes 0..3) on self.f
Condition(f, cc) ==
    CASE cc = 0 -> And(f, ZERO_FLAG) = 0
      [] cc = 1 -> And(f, ZERO_FLAG) = ZERO_FLAG
      [] cc = 2 -> And(f, CARRY_FLAG) = 0
      [] cc = 3 -> And(f, CARRY_FLAG) = CARRY_FLAG

\* LD_r_r, LD_r_mHL, LD_mHL_r (0x40..0x7F but HALT)
ExecLdRR(m, op) ==
    LET dst == (op - \h40) \div 8
        src == op % 8
        addr == MakeHlAddress(m)
    IN  IF dst = 6 THEN McWrite(m, addr, m[R8[src + 1]])
        ELSE IF src = 6
             THEN [MemAccess(m) EXCEPT ![R8[dst + 1]] = Read(m.ram, addr)]
        ELSE [m EXCEPT ![R8[dst + 1]] = m[R8[src + 1]]]

\* LD_r_N, LD_mHL_N had they read the operand without advancing PC (the
\* fault C10 is tried against)
ExecLdRNNoAdvance(m, op) ==
    LET dst == (op - \h06) \div 8
    IN  IF dst = 6 THEN McWrite(m, MakeHlAddress(m), PcByte(m))
        ELSE [m EXCEPT ![R8[dst + 1]] = PcByte(m)]

\* LD_r_N, LD_mHL_N (0x06 + 8 * r)
ExecLdRN(m, op) ==
    LET dst == (op - \h06) \div 8
        addr == MakeHlAddress(m)
        val == PcByte(m)
        m1 == ReadPcMemAndIncrement(m)
    IN  IF dst = 6 THEN McWrite(m1, addr, val)
        ELSE [m1 EXCEPT ![R8[dst + 1]] = val]

\* the 8-bit arithmetic and logic of A with val:
\* ADD 0, ADC 1, SUB 2, SBC 3, AND 4, XOR 5, OR 6, CP 7
AluA(m, kind, val) ==
    LET flagged(x) == [m EXCEPT !.a = x.r, !.f = x.f, !.ovf = @ \/ x.ovf]
        logic(r, hc) == [m EXCEPT !.a = r, !.f = SetLogicFlags(@, r, hc)]
    IN  CASE kind = 0 -> flagged(Add(m.f, m.a, val))
          [] kind = 1 -> flagged(AddWithCarry(m.f, m.a, val))
          [] kind = 2 -> flagged(Subtract(m.f, m.a, val))
          [] kind = 3 -> flagged(SubtractWithCarry(m.f, m.a, val))
          [] kind = 4 -> logic(And(m.a, val), TRUE)
          [] kind = 5 -> logic(Xor(m.a, val), FALSE)
          [] kind = 6 -> logic(Or(m.a, val), FALSE)
          [] kind = 7 ->
               LET x == SubtractWithCarry(m.f, m.a, val)
               IN  [m EXCEPT !.f = x.f, !.ovf = @ \/ x.ovf]

\* ADD_A_r .. CP_r and their mHL forms (0x80..0xBF)
ExecAluR(m, op) ==
    LET kind == (op - \h80) \div 8
        src == op % 8
    IN  IF src = 6
        THEN AluA(MemAccess(m), kind, Read(m.ram, MakeHlAddress(m)))
        ELSE AluA(m, kind, m[R8[src + 1]])

\* ADD_A_N .. CP_N (0xC6 + 8 * kind)
ExecAluN(m, op) ==
    AluA(ReadPcMemAndIncrement(m), (op - \hC6) \div 8, PcByte(m))

\* INC_r, DEC_r and their mHL forms (0x04 / 0x05 + 8 * r)
ExecIncDecR(m, op) ==
    LET r == op \div 8
        addr == MakeHlAddress(m)
        old == IF r = 6 THEN Read(m.ram, addr) ELSE m[R8[r + 1]]
        x == IF op % 8 = 4 THEN Increment(m.f, old) ELSE Decrement(m.f, old)
    IN  IF r = 6
        THEN McWrite([MemAccess(m) EXCEPT !.f = x.f], addr, x.r)
        ELSE [m EXCEPT ![R8[r + 1]] = x.r, !.f = x.f]

\* LD_A_mBC, LD_A_mDE, LD_A_mC, LD_A_mN, LD_A_mNN, LD_A_HLI, LD_A_HLD
ExecLdAMem(m, op) ==
    LET hl == Increment16(m.h, m.l)
        hld == Decrement16(m.h, m.l)
        load(m1, addr) == [MemAccess(m1) EXCEPT !.a = Read(m.ram, addr)]
    IN  CASE op = \h0A -> load(m, MakeBcAddress(m))
          [] op = \h1A -> load(m, MakeDeAddress(m))
          [] op = \hF2 -> load(m, MakeFfcAddress(m))
          [] op = \hF0 -> load(ReadPcMemAndIncrement(m), MakeFfnAddress(m))
          [] op = \hFA -> load(ReadAddressPair(m), MakeNnAddress(m))
          [] op = \h2A -> [load(m, MakeHlAddress(m)) EXCEPT
                              !.h = hl[1], !.l = hl[2]]
          [] op = \h3A -> [load(m, MakeHlAddress(m)) EXCEPT
                              !.h = hld[1], !.l = hld[2]]

\* LD_mBC_A, LD_mDE_A, LD_mC_A, LD_mN_A, LD_mNN_A, LD_HLI_A, LD_HLD_A
ExecLdMemA(m, op) ==
    LET hl == Increment16(m.h, m.l)
        hld == Decrement16(m.h, m.l)
    IN  CASE op = \h02 -> McWrite(m, MakeBcAddress(m), m.a)
          [] op = \h12 -> McWrite(m, MakeDeAddress(m), m.a)
          [] op = \hE2 -> McWrite(m, MakeFfcAddress(m), m.a)
          [] op = \hE0 ->
               McWrite(ReadPcMemAndIncrement(m), MakeFfnAddress(m), m.a)
          [] op = \hEA -> McWrite(ReadAddressPair(m), MakeNnAddress(m), m.a)
          [] op = \h22 ->
               McWrite([m EXCEPT !.h = hl[1], !.l = hl[2]],
                       MakeHlAddress(m), m.a)
          [] op = \h32 ->
               McWrite([m EXCEPT !.h = hld[1], !.l = hld[2]],
                       MakeHlAddress(m), m.a)

\* LD_BC_NN, LD_DE_NN, LD_HL_NN, LD_SP_NN (0x01 + 16 * rr)
ExecLdRrNn(m, op) ==
    LET pair == AddressPair(m)
        m1 == ReadAddressPair(m)
    IN  CASE op = \h01 -> [m1 EXCEPT !.b = pair[2], !.c = pair[1]]
          [] op = \h11 -> [m1 EXCEPT !.d = pair[2], !.e = pair[1]]
          [] op = \h21 -> [m1 EXCEPT !.h = pair[2], !.l = pair[1]]
          [] op = \h31 -> [m1 EXCEPT !.sp = MakeNnAddress(m)]

\* PUSH_BC, PUSH_DE, PUSH_HL, PUSH_AF
ExecPush(m, op) ==
    CASE op = \hC5 -> PushAddressParts(m, m.b, m.c)
      [] op = \hD5 -> PushAddressParts(m, m.d, m.e)
      [] op = \hE5 -> PushAddressParts(m, m.h, m.l)
      [] op = \hF5 -> PushAddressParts(m, m.a, m.f)

\* POP_AF had it stored the popped bytes in A and F (the fault C14 is tried
\* against)
ExecPopIntoAf(m, op) ==
    IF op = \hF1
    THEN [PopAddressParts(m) EXCEPT !.a = AddressParts(m)[1],
                                    !.f = AddressParts(m)[2]]
    ELSE [PopAddressParts(m) EXCEPT !.b = AddressParts(m)[1],
                                    !.c = AddressParts(m)[2]]

\* POP_BC, POP_DE, POP_HL, POP_AF: every arm assigns self.b and self.c
ExecPop(m, op) ==
    LET parts == AddressParts(m)
    IN  [PopAddressParts(m) EXCEPT !.b = parts[1], !.c = parts[2]]

\* LDHL_SP_e
ExecLdhlSpE(m) ==
    LET b == PcByte(m)
        m1 == ReadPcMemAndIncrement(m)
        x == AddToU16(m1.f, b, m1.sp)
    IN  [m1 EXCEPT !.f = x.f, !.ovf = @ \/ x.ovf,
                   !.h = Shr(And(x.r, \hFF00), 8), !.l = And(x.r, \h00FF)]

\* LD_mNN_SP
ExecLdMnnSp(m) ==
    LET addr == MakeNnAddress(m)
        m1 == McWrite(ReadAddressPair(m), addr, And(m.sp, \h00FF))
    IN  McWrite(m1, AddrInc(addr, 1), Shr(And(m.sp, \hFF00), 8))

\* ADD_HL_BC, ADD_HL_DE, ADD_HL_HL, ADD_HL_SP
ExecAddHl(m, op) ==
    LET pair == CASE op = \h09 -> <<m.b, m.c>>
                  [] op = \h19 -> <<m.d, m.e>>
                  [] op = \h29 -> <<m.h, m.l>>
                  [] op = \h39 -> <<Shr(And(m.sp, \hFF00), 8), m.sp % 256>>
        lo == Add(m.f, m.l, pair[2])
        carry == GetCarryValue(lo.f)
        hi == IF op = \h39
              THEN Add(lo.f, m.h, WrapAdd8(pair[1], carry))
              ELSE AddWithCarry(lo.f, m.h, pair[1])
    IN  [m EXCEPT !.l = lo.r, !.h = hi.r, !.f = hi.f,
                  !.ovf = @ \/ (op = \h39 /\ pair[1] + carry > 255)]

\* INC_BC .. INC_SP, DEC_BC .. DEC_SP (0x03 / 0x0B + 16 * rr)
ExecIncDecRr(m, op) ==
    LET step(high, low) ==
            IF op % 16 = 3 THEN Increment16(high, low)
            ELSE Decrement16(high, low)
        rr == op \div 16
    IN  CASE rr = 0 -> [m EXCEPT !.b = step(m.b, m.c)[1],
                                 !.c = step(m.b, m.c)[2]]
          [] rr = 1 -> [m EXCEPT !.d = step(m.d, m.e)[1],
                                 !.e = step(m.d, m.e)[2]]
          [] rr = 2 -> [m EXCEPT !.h = step(m.h, m.l)[1],
                                 !.l = step(m.h, m.l)[2]]
          [] rr = 3 -> [m EXCEPT !.sp = IF op % 16 = 3 THEN AddrInc(@, 1)
                                        ELSE AddrDec(@, 1)]

\* RLCA, RLA, RRCA, RRA
ExecRotA(m, op) ==
    LET x == CASE op = \h07 -> DoRlc(m.f, m.a)
               [] op = \h17 -> DoRl(m.f, m.a)
               [] op = \h0F -> DoRrc(m.f, m.a)
               [] op = \h1F -> DoRr(m.f, m.a)
    IN  [m EXCEPT !.a = x.r, !.f = x.f]

\* RST_0 .. RST_7 (0xC7 + 8 * n): the push, then self.pc = 8 * n
ExecRst(m, op) == [PushAddress(m, m.pc) EXCEPT !.pc = op - \hC7]

\* RETI
ExecReti(m) == [DoReturnConditional(m, TRUE) EXCEPT !.ime = TRUE]

\* EI
ExecEi(m) == [m EXCEPT !.ime = TRUE]

\* DI had it left IME alone (the fault C18 is tried against)
ExecDiNoEffect(m) == m

\* DI
ExecDi(m) == [m EXCEPT !.ime = FALSE]

\* HALT had it left the halted flag alone (the fault C7 is tried against)
ExecHaltNoFlag(m) == m

\* STOP had it left the interrupt-enable register alone (the fault C6 is
\* tried against)
ExecStopKeepsIe(m) == [m EXCEPT !.stop = TRUE]

\* HALT
ExecHalt(m) == [m EXCEPT !.halt = TRUE]

\* STOP
ExecStop(m) == McWrite([m EXCEPT !.stop = TRUE], IE_ADDR, 0)

\* the match of do_op, for a byte of the primary table
ExecOp(m, op) ==
    CASE op = \h76 -> ExecHalt(m)
      [] op = \h10 -> ExecStop(m)
      [] op = \h00 -> m
      [] op = \hF3 -> ExecEi(m)
      [] op = \hFB -> ExecDi(m)
      [] op = \h2F -> [m EXCEPT !.a = Not8(@)]
      [] op = \h27 ->
           LET x == DoDaa(m.f, m.a)
           IN  [m EXCEPT !.a = x.r, !.f = x.f, !.ovf = @ \/ x.ovf]
      [] op \in \h40 .. \h7F /\ op # \h76 -> ExecLdRR(m, op)
      [] op \in \h80 .. \hBF -> ExecAluR(m, op)
      [] op \in {\hC6, \hCE, \hD6, \hDE, \hE6, \hEE, \hF6, \hFE} ->
           ExecAluN(m, op)
      [] op \in {\h06, \h0E, \h16, \h1E, \h26, \h2E, \h36, \h3E} ->
           ExecLdRN(m, op)
      [] op < \h40 /\ op % 8 \in {4, 5} -> ExecIncDecR(m, op)
      [] op \in {\h0A, \h1A, \hF2, \hF0, \hFA, \h2A, \h3A} -> ExecLdAMem(m, op)
      [] op \in {\h02, \h12, \hE2, \hE0, \hEA, \h22, \h32} -> ExecLdMemA(m, op)
      [] op \in {\h01, \h11, \h21, \h31} -> ExecLdRrNn(m, op)
      [] op = \hF9 -> [m EXCEPT !.sp = MakeHlAddress(m)]
      [] op \in {\hC5, \hD5, \hE5, \hF5} -> ExecPush(m, op)
      [] op \in {\hC1, \hD1, \hE1, \hF1} -> ExecPop(m, op)
      [] op = \hF8 -> ExecLdhlSpE(m)
      [] op = \h08 -> ExecLdMnnSp(m)
      [] op \in {\h09, \h19, \h29, \h39} -> ExecAddHl(m, op)
      [] op = \hE8 ->
           [ReadPcMemAndIncrement(m) EXCEPT !.sp = AddrInc(@, PcByte(m))]
      [] op < \h40 /\ op % 16 \in {3, 11} -> ExecIncDecRr(m, op)
      [] op \in {\h07, \h17, \h0F, \h1F} -> ExecRotA(m, op)
      [] op = \hCB ->
           DecodeAndExecuteCbOp(ReadPcMemAndIncrement(m), PcByte(m))
      [] op = \hC3 -> DoJumpConditional(m, TRUE)
      [] op \in {\hC2, \hCA, \hD2, \hDA} ->
           DoJumpConditional(m, Condition(m.f, (op \div 8) % 4))
      [] op = \h18 -> DoJumpRelativeConditional(m, TRUE)
      [] op \in {\h20, \h28, \h30, \h38} ->
           DoJumpRelativeConditional(m, Condition(m.f, (op \div 8) % 4))
      [] op = \hE9 -> [m EXCEPT !.pc = MakeHlAddress(m)]
      [] op = \hCD -> DoCallConditional(m, TRUE)
      [] op \in {\hC4, \hCC, \hD4, \hDC} ->
           DoCallConditional(m, Condition(m.f, (op \div 8) % 4))
      [] op = \hC9 -> DoReturnConditional(m, TRUE)
      [] op = \hD9 -> ExecReti(m)
      [] op \in {\hC0, \hC8, \hD0, \hD8} ->
           DoReturnConditional(m, Condition(m.f, (op \div 8) % 4))
      [] op \in {\hC7, \hCF, \hD7, \hDF, \hE7, \hEF, \hF7, \hFF} ->
           ExecRst(m, op)

\* do_op had it skipped a byte without a variant (the fault C4 is tried
\* against)
DoOpSkipsUnknown(m, op_val) ==
    IF op_val \notin OpCodes
    THEN m @@ [res |-> "Ok"]
    ELSE [ExecOp(m, op_val) EXCEPT !.log = Append(@, op_val)] @@ [res |-> "Ok"]

\* do_op: the machine afterwards, with res the Result returned
DoOp(m, op_val) ==
    IF op_val \notin OpCodes
    THEN m @@ [res |-> "Err"]
    ELSE [ExecOp(m, op_val) EXCEPT !.log = Append(@, op_val)] @@ [res |-> "Ok"]

\* tick had it not looked at is_stopped (the fault C5 is tried against)
TickOfIgnoresStop(m) ==
    CHOOSE r \in {DoOp(m1, op) : m1 \in {ReadPcMemAndIncrement(m)},
                                 op \in {PcByte(m)}} : TRUE

\* tick had it idled while the CPU is halted (the fault C36 is tried
\* against)
TickOfHaltedIdles(m) ==
    IF m.stop \/ m.halt THEN m @@ [res |-> "Ok"]
    ELSE CHOOSE r \in {DoOp(m1, op) : m1 \in {ReadPcMemAndIncrement(m)},
                                      op \in {PcByte(m)}} : TRUE

\* tick
TickOf(m) ==
    IF m.stop THEN m @@ [res |-> "Ok"]
    ELSE CHOOSE r \in {DoOp(m1, op) : m1 \in {ReadPcMemAndIncrement(m)},
                                      op \in {PcByte(m)}} : TRUE

----------------------------------------------------------------------------
(* The engine: ticks of a DmgCpu.                                          *)
(*                                                                         *)
(* A behaviour starts either at power-on or in a state a set-up prefix of *)
(* the program leaves (LD r,n for the registers, an ALU operation for the *)
(* flags, LD SP,nn, DI, LD (nn),A for the RAM bytes, a jump to pc), with  *)
(* an arbitrary instruction at pc: any opcode byte, followed by operand   *)
(* bytes drawn from OperandLo and OperandHi.                              *)

OperandLo == {\h00, \h42, \hFE}
OperandHi == {\h02, \hC0}

\* flag values an ALU operation leaves: none, Z, C, Z+C, N+H+C
SetUpFlags == {\h00, \h80, \h10, \h90, \h70}

CpuSetUp(fl) ==
    [a |-> \h5A, b |-> \h01, c |-> \h50, d |-> \h80, e |-> \h02, f |-> fl,
     h |-> \hC0, l |-> \h10, sp |-> \hD000, pc |-> \h0200,
     ime |-> FALSE, halt |-> FALSE, stop |-> FALSE, clock |-> 64]

\* RAM bytes the set-up prefix wrote (work RAM together with its echo)
RamSetUp ==
    [x \in {\hFFFF, \hD000, \hF000, \hD001, \hF001, \hC010, \hE010,
             \hC042, \hE042} |->
        CASE x = \hFFFF -> \h1F
          [] x \in {\hC042, \hE042} -> \hC9
          [] x \in {\hD000, \hF000} -> \h34
          [] x \in {\hD001, \hF001} -> \h12
          [] x \in {\hC010, \hE010} -> \h77]

NoRam == [x \in {} |-> 0]

\* set-up states at the ends of the address range: PC at 0xFFFF (an
\* instruction written to the interrupt-enable register and jumped to), SP
\* at 0x0000 or 0xFFFF, HL at the start of the unusable region
CpuAtEnds(sp) ==
    [CpuSetUp(\h00) EXCEPT !.pc = \hFFFF, !.sp = sp, !.h = \hFE, !.l = \hA0]

Profiles ==
    {[cpu |-> CpuNew, ram |-> NoRam]}
    \cup {[cpu |-> CpuSetUp(fl), ram |-> RamSetUp] : fl \in SetUpFlags}
    \cup {[cpu |-> CpuAtEnds(sp), ram |-> RamSetUp] : sp \in {\h0000, \hFFFF}}

\* a cartridge window holding one instruction at address p
Program(p, op, lo, hi) ==
    [x \in {p, AddrInc(p, 1), AddrInc(p, 2)} |->
        IF x = p THEN op ELSE IF x = AddrInc(p, 1) THEN lo ELSE hi]

\* the image a profile starts from: the set-up RAM with the instruction laid
\* over it (its bytes below 0x8000 came with the cartridge, the others were
\* written by the set-up)
ProgramImage(prog, setup) ==
    LET img == [x \in DOMAIN prog \cup DOMAIN setup |->
                   IF x \in DOMAIN prog THEN prog[x] ELSE setup[x]]
    IN  [x \in {y \in DOMAIN img : img[y] # 0} |-> img[x]]

NoCall == [name |-> "none"]

\* no DmgBoy::run in progress: the operations are called directly
NoRun == [at |-> "none"]

Init ==
    \E p \in Profiles, op \in Byte, lo \in OperandLo, hi \in OperandHi :
        /\ cpu = p.cpu
        /\ rom0 = MemNew(Program(p.cpu.pc, op, lo, hi))
        /\ ram = ProgramImage(Program(p.cpu.pc, op, lo, hi), p.ram)
        /\ bus = BusNew
        /\ hook = <<>>
        /\ acc = 0
        /\ result = "None"
        /\ log = <<>>
        /\ last = NoCall
        /\ ret = -1
        /\ steps = 0
        /\ run = NoRun

\* One call of DmgCpu::tick.  An overflow of an overflow-checked operation
\* aborts the process in a debug build and wraps in a release build.
TickStep ==
    /\ result # "Panic"
    /\ \E build \in {"debug", "release"} :
        \E m \in {TickOf(m0) : m0 \in {Machine(cpu, ram, bus, log)}} :
            IF m.ovf /\ build = "debug"
            THEN /\ result' = "Panic"
                 /\ hook' = <<>>
                 /\ acc' = 0
                 /\ UNCHANGED <<cpu, ram, bus, log>>
            ELSE /\ result' = m.res
                 /\ cpu' = CpuOf(m)
                 /\ ram' = m.ram
                 /\ bus' = m.bus
                 /\ hook' = m.hook
                 /\ acc' = m.acc
                 /\ log' = m.log
    /\ last' = [name |-> "tick", opcode |-> Read(ram, cpu.pc),
                cpu |-> cpu, ram |-> ram,
                prev |-> IF last.name = "tick"
                         THEN [name |-> "tick", opcode |-> last.opcode,
                               cpu |-> last.cpu]
                         ELSE NoCall]
    /\ steps' = steps + 1
    /\ UNCHANGED <<ret, rom0>>

\* a tick called directly, as a test harness does
Tick ==
    /\ steps < MaxTicks
    /\ TickStep
    /\ UNCHANGED run

Next == Tick

Spec == Init /\ [][Next]_vars

----------------------------------------------------------------------------
(* DmgBoy::run, the loop that drives the ticks.  The repository has two   *)
(* crate roots with a DmgBoy of their own: bugboy.rs and main.rs.         *)

\* the loop of bugboy.rs had it tested its budget before taking one off
\* (the fault C22 is tried against)
RunBugboyLateTest(max_ticks, res, stopped) ==
    IF res = "Err" THEN [max_ticks |-> max_ticks, at |-> "returned"]
    ELSE IF stopped THEN [max_ticks |-> max_ticks, at |-> "returned"]
    ELSE IF max_ticks = 0 THEN [max_ticks |-> max_ticks, at |-> "returned"]
    ELSE [max_ticks |-> max_ticks - 1, at |-> "loop"]

\* what the loop of bugboy.rs does with its budget after a tick that
\* returned res and left is_stopped() = stopped
RunBugboy(max_ticks, res, stopped) ==
    IF res = "Err" THEN [max_ticks |-> max_ticks, at |-> "returned"]
    ELSE IF stopped THEN [max_ticks |-> max_ticks, at |-> "returned"]
    ELSE [max_ticks |-> max_ticks - 1,
          at |-> IF max_ticks - 1 = 0 THEN "returned" ELSE "loop"]

\* the loop of main.rs: the value tick returns is dropped
RunMain(ticks, res, stopped) ==
    IF stopped THEN [max_ticks |-> ticks, at |-> "returned"]
    ELSE [max_ticks |-> ticks - 1,
          at |-> IF ticks - 1 = 0 THEN "returned" ELSE "loop"]

\* DmgBoy::new(rom) followed by the first statement of run
InitRun ==
    \E root \in {"bugboy", "main"},
       op \in Byte, lo \in OperandLo, hi \in OperandHi :
        /\ cpu = CpuNew
        /\ rom0 = MemNew(Program(CpuNew.pc, op, lo, hi))
        /\ ram = MemNew(Program(CpuNew.pc, op, lo, hi))
        /\ bus = BusNew
        /\ hook = <<>>
        /\ acc = 0
        /\ result = "None"
        /\ log = <<>>
        /\ last = NoCall
        /\ ret = -1
        /\ steps = 0
        /\ run = [root |-> root, max_ticks |-> RunBudget, at |-> "loop"]

\* one iteration of the loop: the tick and the tests that follow it.  A
\* tick that panics takes the process down with it.
RunStep ==
    /\ run.at = "loop"
    /\ TickStep
    /\ run' = IF result' = "Panic"
              THEN [run EXCEPT !.at = "aborted"]
              ELSE [root |-> run.root] @@
                   (IF run.root = "bugboy"
                    THEN RunBugboy(run.max_ticks, result', cpu'.stop)
                    ELSE RunMain(run.max_ticks, result', cpu'.stop))

NextRun == RunStep

SpecRun == InitRun /\ [][NextRun]_vars

\* the loop taking its next iteration.  A step of SpecRun changes steps
\* exactly when it is a RunStep, and TickStep can be taken whenever no tick
\* has panicked, so fairness of RunAdvance is fairness of RunStep.
RunAdvance ==
    /\ run.at = "loop"
    /\ result # "Panic"
    /\ steps' = steps + 1

\* the loop is straight-line code on one thread: an iteration that can be
\* taken is taken
SpecRunFair == SpecRun /\ WF_steps(RunAdvance)

----------------------------------------------------------------------------
(* The memory controller on its own: writes to a fresh MemoryController.  *)

\* the ends of the regions MemoryController::write tells apart
WriteAddrs ==
    {\h0000, \h00FF, \h0100, \h3FFF, \h4000, \h7FFF, \h8000, \hA000,
     \hC000, \hDDFF, \hDE00, \hDFFF, \hE000, \hFDFF, \hFE00, \hFEA0,
     \hFF80, \hFFFF}

WriteVals == {\h5A, \hA5}

\* cartridge windows: a byte at each ROM address written to
RomImages ==
    {[x \in {y \in WriteAddrs : y < \h8000} |-> v] : v \in {\h3C, \hC3}}

InitMem ==
    \E rom \in RomImages :
        /\ cpu = CpuNew
        /\ rom0 = MemNew(rom)
        /\ ram = rom0
        /\ bus = BusNew
        /\ hook = <<>>
        /\ acc = 0
        /\ result = "None"
        /\ log = <<>>
        /\ last = NoCall
        /\ ret = -1
        /\ steps = 0
        /\ run = NoRun

\* One call of MemoryController::write
Write ==
    /\ steps < MaxWrites
    /\ \E addr \in WriteAddrs, val \in WriteVals :
        /\ ram' = MemWrite(ram, addr, val)
        /\ last' = [name |-> "write", addr |-> addr, val |-> val, ram |-> ram]
    /\ steps' = steps + 1
    /\ UNCHANGED <<cpu, bus, hook, acc, result, log, ret, rom0, run>>

NextMem == Write

SpecMem == InitMem /\ [][NextMem]_vars

----------------------------------------------------------------------------
(* The stack helpers on their own: push_address_u16 and pop_address_u16   *)
(* of a DmgCpu whose SP a LD SP,nn has set.                               *)

StackSps == {\hFFFE, \hD000, \hC001, \h9000}

PushAddrs == {\h0000, \h1234, \h0150, \hABAB, \hFF00, \hFFFF}

InitStack ==
    \E sp \in StackSps :
        /\ cpu = [CpuNew EXCEPT !.sp = sp]
        /\ rom0 = NoRam
        /\ ram = rom0
        /\ bus = BusNew
        /\ hook = <<>>
        /\ acc = 0
        /\ result = "None"
        /\ log = <<>>
        /\ last = NoCall
        /\ ret = -1
        /\ steps = 0
        /\ run = NoRun

\* One call of push_address_u16
Push ==
    /\ steps < MaxStackOps
    /\ \E addr \in PushAddrs :
        LET m == PushAddressU16(Machine(cpu, ram, bus, log), addr)
        IN  /\ cpu' = CpuOf(m)
            /\ ram' = m.ram
            /\ bus' = m.bus
            /\ hook' = m.hook
            /\ acc' = m.acc
            /\ last' = [name |-> "push", addr |-> addr, cpu |-> cpu,
                        ram |-> ram]
    /\ result' = "Ok"
    /\ steps' = steps + 1
    /\ UNCHANGED <<log, ret, rom0, run>>

\* One call of pop_address_u16
Pop ==
    /\ steps < MaxStackOps
    /\ LET m0 == Machine(cpu, ram, bus, log)
           m == PopAddressParts(m0)
       IN  /\ cpu' = CpuOf(m)
           /\ bus' = m.bus
           /\ hook' = m.hook
           /\ acc' = m.acc
           /\ ret' = AddressU16(m0)
    /\ last' = [name |-> "pop", prev |-> last, cpu |-> cpu, ram |-> ram]
    /\ steps' = steps + 1
    /\ UNCHANGED <<ram, result, log, rom0, run>>

NextStack == Push \/ Pop

SpecStack == InitStack /\ [][NextStack]_vars

----------------------------------------------------------------------------
(* The ALU helpers and the CB decoder on their own: one call of add,      *)
(* add_with_carry, do_swap or SecondOpType::from_u8 on a DmgCpu whose A   *)
(* holds the first operand and whose B holds the second.                  *)

\* calls performed in one behaviour of SpecAlu
MaxAluCalls == 1

\* second operands: the ends of the byte and of each nibble, and patterns
AluOperands ==
    {\h00, \h01, \h0F, \h10, \h55, \h7F, \h80, \hAA, \hF0, \hF1, \hFE, \hFF}

InitAlu ==
    \E a \in Byte, b \in AluOperands, fl \in SetUpFlags :
        /\ cpu = [CpuNew EXCEPT !.a = a, !.b = b, !.f = fl]
        /\ rom0 = NoRam
        /\ ram = rom0
        /\ bus = BusNew
        /\ hook = <<>>
        /\ acc = 0
        /\ result = "None"
        /\ log = <<>>
        /\ last = NoCall
        /\ ret = -1
        /\ steps = 0
        /\ run = NoRun

\* One call of add(self.a, self.b)
CallAdd ==
    /\ steps < MaxAluCalls
    /\ LET x == Add(cpu.f, cpu.a, cpu.b)
       IN  /\ cpu' = [cpu EXCEPT !.f = x.f]
           /\ ret' = x.r
    /\ last' = [name |-> "add", cpu |-> cpu]
    /\ steps' = steps + 1
    /\ UNCHANGED <<ram, bus, hook, acc, result, log, rom0, run>>

\* One call of subtract(self.a, self.b)
CallSubtract ==
    /\ steps < MaxAluCalls
    /\ LET x == Subtract(cpu.f, cpu.a, cpu.b)
       IN  /\ cpu' = [cpu EXCEPT !.f = x.f]
           /\ ret' = x.r
    /\ last' = [name |-> "subtract", cpu |-> cpu]
    /\ steps' = steps + 1
    /\ UNCHANGED <<ram, bus, hook, acc, result, log, rom0, run>>

\* One call of add_with_carry(self.a, self.b)
CallAddWithCarry ==
    /\ steps < MaxAluCalls
    /\ LET x == AddWithCarry(cpu.f, cpu.a, cpu.b)
       IN  /\ cpu' = [cpu EXCEPT !.f = x.f]
           /\ ret' = x.r
    /\ last' = [name |-> "add_with_carry", cpu |-> cpu]
    /\ steps' = steps + 1
    /\ UNCHANGED <<ram, bus, hook, acc, result, log, rom0, run>>

\* One call of do_swap(self.a); twice is do_swap of the value returned
CallDoSwap ==
    /\ steps < MaxAluCalls
    /\ LET x == DoSwap(cpu.f, cpu.a)
       IN  /\ cpu' = [cpu EXCEPT !.f = x.f]
           /\ ret' = x.r
           /\ last' = [name |-> "do_swap", cpu |-> cpu,
                       twice |-> DoSwap(x.f, x.r).r]
    /\ steps' = steps + 1
    /\ UNCHANGED <<ram, bus, hook, acc, result, log, rom0, run>>

\* One call of SecondOpType::from_u8(self.a)
CallFromU8 ==
    /\ steps < MaxAluCalls
    /\ ret' = SecondOpType(cpu.a)
    /\ last' = [name |-> "from_u8", cpu |-> cpu]
    /\ steps' = steps + 1
    /\ UNCHANGED <<cpu, ram, bus, hook, acc, result, log, rom0, run>>

NextAlu ==
    \/ CallAdd
    \/ CallSubtract
    \/ CallAddWithCarry
    \/ CallDoSwap
    \/ CallFromU8

SpecAlu == InitAlu /\ [][NextAlu]_vars

----------------------------------------------------------------------------
(* The one-operand helpers on their own (rotates, shifts, increment,      *)
(* decrement, do_daa): one call on the value of self.a, for every value   *)
(* and for the flag values an ALU operation leaves, among them every      *)
(* combination of Subtract, Half-Carry and Carry.                         *)

InitRot ==
    \E v \in Byte, fl \in SetUpFlags \cup {16 * k : k \in 0 .. 7} :
        /\ cpu = [CpuNew EXCEPT !.a = v, !.f = fl]
        /\ ram = NoRam
        /\ rom0 = NoRam
        /\ bus = BusNew
        /\ hook = <<>>
        /\ acc = 0
        /\ result = "None"
        /\ log = <<>>
        /\ last = NoCall
        /\ ret = -1
        /\ steps = 0
        /\ run = NoRun

\* let r = self.<name>(self.a), x being what the helper gives
CallRot(name, x) ==
    /\ steps < MaxRotCalls
    /\ result # "Panic"
    /\ cpu' = [cpu EXCEPT !.f = x.f]
    /\ ret' = x.r
    /\ last' = [name |-> name, cpu |-> cpu]
    /\ steps' = steps + 1
    /\ UNCHANGED <<ram, bus, hook, acc, result, log, rom0, run>>

CallDoRlc == CallRot("do_rlc", DoRlc(cpu.f, cpu.a))
CallDoRl == CallRot("do_rl", DoRl(cpu.f, cpu.a))
CallDoRrc == CallRot("do_rrc", DoRrc(cpu.f, cpu.a))
CallDoRr == CallRot("do_rr", DoRr(cpu.f, cpu.a))
CallDoSla == CallRot("do_sla", DoSla(cpu.f, cpu.a))
CallDoSra == CallRot("do_sra", DoSra(cpu.f, cpu.a))
CallDoSrl == CallRot("do_srl", DoSrl(cpu.f, cpu.a))
CallIncrement == CallRot("increment", Increment(cpu.f, cpu.a))
CallDecrement == CallRot("decrement", Decrement(cpu.f, cpu.a))

\* self.do_daa(): the result goes to self.a.  The overflow-checked
\* subtraction aborts the process in a debug build and wraps in a release
\* build.
CallDoDaa ==
    /\ steps < MaxRotCalls
    /\ result # "Panic"
    /\ \E build \in {"debug", "release"} :
        LET x == DoDaa(cpu.f, cpu.a)
        IN  IF x.ovf /\ build = "debug"
            THEN /\ result' = "Panic"
                 /\ UNCHANGED <<cpu, ret>>
            ELSE /\ result' = "Ok"
                 /\ cpu' = [cpu EXCEPT !.a = x.r, !.f = x.f]
                 /\ ret' = x.r
    /\ last' = [name |-> "do_daa", cpu |-> cpu]
    /\ steps' = steps + 1
    /\ UNCHANGED <<ram, bus, hook, acc, log, rom0, run>>

NextRot ==
    \/ CallDoRlc
    \/ CallDoRl
    \/ CallDoRrc
    \/ CallDoRr
    \/ CallDoSla
    \/ CallDoSra
    \/ CallDoSrl
    \/ CallIncrement
    \/ CallDecrement
    \/ CallDoDaa

SpecRot == InitRot /\ [][NextRot]_vars

----------------------------------------------------------------------------
(* The 16-bit helpers of gb_mem.rs on their own: post_inc and post_dec    *)
(* called on one address, held in cpu.pc as DmgCpu holds it, and the      *)
(* INC rr / DEC rr arms, which call increment_16 / decrement_16 on a      *)
(* register pair holding the same value.                                  *)

AddrValues ==
    {\h0000, \h0001, \h000A, \h00FF, \h0100, \h7FFF, \h8000, \hFFFE, \hFFFF}
AddrAmounts == {\h0000, \h0001, \h0002, \h0100, \h8000, \hFFFF}

InitAddr ==
    \E v \in AddrValues, fl \in {\h00, \hF0} :
        /\ cpu = [CpuNew EXCEPT !.pc = v, !.f = fl,
                                !.b = v \div 256, !.c = v % 256,
                                !.d = v \div 256, !.e = v % 256,
                                !.h = v \div 256, !.l = v % 256]
        /\ ram = NoRam
        /\ rom0 = NoRam
        /\ bus = BusNew
        /\ hook = <<>>
        /\ acc = 0
        /\ result = "None"
        /\ log = <<>>
        /\ last = NoCall
        /\ ret = -1
        /\ steps = 0
        /\ run = NoRun

\* let copy = addr.post_inc(amt)
CallPostInc ==
    /\ steps < MaxAddrCalls
    /\ \E amt \in AddrAmounts :
        /\ cpu' = [cpu EXCEPT !.pc = AddrPostInc(cpu.pc, amt).self]
        /\ ret' = AddrPostInc(cpu.pc, amt).ret
        /\ last' = [name |-> "post_inc", v |-> cpu.pc, amt |-> amt]
    /\ steps' = steps + 1
    /\ UNCHANGED <<ram, bus, hook, acc, result, log, rom0, run>>

\* let copy = addr.post_dec(amt)
CallPostDec ==
    /\ steps < MaxAddrCalls
    /\ \E amt \in AddrAmounts :
        /\ cpu' = [cpu EXCEPT !.pc = AddrPostDec(cpu.pc, amt).self]
        /\ ret' = AddrPostDec(cpu.pc, amt).ret
        /\ last' = [name |-> "post_dec", v |-> cpu.pc, amt |-> amt]
    /\ steps' = steps + 1
    /\ UNCHANGED <<ram, bus, hook, acc, result, log, rom0, run>>

\* the arm of do_op for INC BC / DE / HL (0x03, 0x13, 0x23) or DEC BC / DE
\* / HL (0x0B, 0x1B, 0x2B)
CallIncDecRr ==
    /\ steps < MaxAddrCalls
    /\ \E op \in {\h03, \h13, \h23, \h0B, \h1B, \h2B} :
        /\ cpu' = CpuOf(ExecIncDecRr(Machine(cpu, ram, bus, log), op))
        /\ last' = [name |-> "inc_dec_rr", op |-> op, cpu |-> cpu,
                    prev |-> IF last.name = "inc_dec_rr"
                             THEN [name |-> last.name, op |-> last.op,
                                   cpu |-> last.cpu]
                             ELSE NoCall]
    /\ steps' = steps + 1
    /\ UNCHANGED <<ram, bus, hook, acc, result, log, ret, rom0, run>>

NextAddr == CallPostInc \/ CallPostDec \/ CallIncDecRr

SpecAddr == InitAddr /\ [][NextAddr]_vars

----------------------------------------------------------------------------
(* Properties.  `last` holds the call just made and the state it was made *)
(* in; for a tick, last.opcode is the byte at PC when it was made.        *)

\* C1: push_address_u16(addr) immediately followed by pop_address_u16()
\* returns addr, and SP is again what it was before the push.
PushThenPopReturnsAddr ==
    (last.name = "pop" /\ last.prev.name = "push") =>
        /\ ret = last.prev.addr
        /\ cpu.sp = last.prev.cpu.sp

\* C2 (as the code has it): for every w in 0xC000..0xDDFF the bytes at w and
\* at w + 0x2000 are equal after any writes; write(w, x) with w anywhere in
\* 0xC000..0xDFFF makes read(w + 0x2000) = x; write(e, x) with e in
\* 0xE000..0xFDFF makes read(e - 0x2000) = x.
WorkRamAndEchoMirrored ==
    /\ \A a \in DOMAIN ram :
        /\ a \in \hC000 .. \hDDFF => Read(ram, a + \h2000) = ram[a]
        /\ a \in \hE000 .. \hFDFF => Read(ram, a - \h2000) = ram[a]
    /\ last.name = "write" =>
        /\ last.addr \in \hC000 .. \hDFFF =>
               Read(ram, last.addr + \h2000) = last.val
        /\ last.addr \in \hE000 .. \hFDFF =>
               Read(ram, last.addr - \h2000) = last.val

WorkRamAndEchoMirroredSeen ==
    /\ last.name = "write"
    /\ last.addr \in \hE000 .. \hFDFF
    /\ Read(last.ram, last.addr - \h2000) # last.val
    /\ Read(ram, last.addr - \h2000) = last.val
    /\ Read(ram, last.addr) = last.val

\* C2 as stated: for every w in 0xC000..0xDFFF the bytes at w and at
\* w + 0x2000 are equal after any writes, and a write to either is read
\* back from the other.
WholeWorkRamMirrored ==
    /\ \A a \in DOMAIN ram :
        /\ a \in \hC000 .. \hDFFF => Read(ram, a + \h2000) = ram[a]
        /\ a \in \hE000 .. \hFFFF => Read(ram, a - \h2000) = ram[a]
    /\ last.name = "write" =>
        /\ last.addr \in \hC000 .. \hDFFF =>
               Read(ram, last.addr + \h2000) = last.val
        /\ last.addr \in \hE000 .. \hFFFF =>
               Read(ram, last.addr - \h2000) = last.val

\* C3: after any writes every byte at 0x0000..0x7FFF is the byte the
\* construction put there.
RomNeverChanged ==
    \A r \in DOMAIN ram \cup DOMAIN rom0 :
        r < \h8000 => Read(ram, r) = Read(rom0, r)

\* C4: a tick whose byte at PC has no variant in OpCodes returns an error
\* and leaves memory, A, B, C, D, E, F, H, L, SP, IME, halted and stopped
\* alone; PC is one past the byte.
UnmappedOpcodeIsError ==
    (last.name = "tick" /\ ~last.cpu.stop /\ last.opcode \notin OpCodes) =>
        /\ result = "Err"
        /\ ram = last.ram
        /\ \A k \in {"a", "b", "c", "d", "e", "f", "h", "l", "sp",
                     "ime", "halt", "stop"} : cpu[k] = last.cpu[k]
        /\ cpu.pc = (last.cpu.pc + 1) % 65536

UnmappedOpcodeIsErrorSeen ==
    /\ last.name = "tick"
    /\ ~last.cpu.stop
    /\ last.opcode = \hD3
    /\ last.opcode \notin OpCodes
    /\ result = "Err"

\* C5: a tick made with the stopped flag set returns success, changes no
\* register, PC, SP, flag, IME, the cycle counter, the memory image nor the
\* stopped flag, and makes no call of the timing hook.
StoppedIsAbsorbing ==
    (last.name = "tick" /\ last.cpu.stop) =>
        /\ result = "Ok"
        /\ cpu = last.cpu
        /\ ram = last.ram
        /\ hook = <<>>

StoppedIsAbsorbingSeen ==
    /\ last.name = "tick"
    /\ last.cpu.stop
    /\ cpu.stop
    /\ result = "Ok"
    /\ Read(ram, cpu.pc) \in OpCodes \ {\h00}

\* C6: a tick of STOP (0x10) made with the stopped flag clear sets the
\* stopped flag and leaves the byte at 0xFFFF equal to 0.
StopSetsStoppedAndClearsIe ==
    (last.name = "tick" /\ ~last.cpu.stop /\ last.opcode = \h10) =>
        /\ cpu.stop
        /\ Read(ram, \hFFFF) = 0

StopSetsStoppedAndClearsIeSeen ==
    /\ last.name = "tick"
    /\ ~last.cpu.stop
    /\ last.opcode = \h10
    /\ Read(last.ram, \hFFFF) # 0
    /\ Read(ram, \hFFFF) = 0
    /\ cpu.stop

\* C7: a tick of HALT (0x76) sets the halted flag, and no tick clears the
\* halted flag once it is set.
HaltedStaysSet ==
    [][/\ (~cpu.stop /\ Read(ram, cpu.pc) = \h76) => cpu'.halt
       /\ cpu.halt => cpu'.halt]_vars

HaltedStaysSetSeen ==
    /\ last.name = "tick"
    /\ last.cpu.halt
    /\ ~last.cpu.stop
    /\ last.opcode \in OpCodes
    /\ result = "Ok"
    /\ cpu.halt

\* C8: a tick of JP cc,nn or CALL cc,nn whose condition is false leaves PC
\* at the opcode address + 3, of JR cc,e at + 2, and SP and memory as they
\* were; a tick of RET cc whose condition is false leaves PC at the opcode
\* address + 1 and SP as it was.
FalseConditionConsumesOperands ==
    (last.name = "tick" /\ ~last.cpu.stop) =>
        LET op == last.opcode
            p == last.cpu.pc
            z == (last.cpu.f \div 128) % 2 = 1
            c == (last.cpu.f \div 16) % 2 = 1
            cc == (op \div 8) % 4
            false == CASE cc = 0 -> z
                       [] cc = 1 -> ~z
                       [] cc = 2 -> c
                       [] cc = 3 -> ~c
        IN  /\ (op \in {\hC2, \hCA, \hD2, \hDA, \hC4, \hCC, \hD4, \hDC} /\ false) =>
                /\ cpu.pc = (p + 3) % 65536
                /\ cpu.sp = last.cpu.sp
                /\ ram = last.ram
            /\ (op \in {\h20, \h28, \h30, \h38} /\ false) =>
                /\ cpu.pc = (p + 2) % 65536
                /\ cpu.sp = last.cpu.sp
                /\ ram = last.ram
            /\ (op \in {\hC0, \hC8, \hD0, \hD8} /\ false) =>
                /\ cpu.pc = (p + 1) % 65536
                /\ cpu.sp = last.cpu.sp

FalseConditionConsumesOperandsSeen ==
    /\ last.name = "tick"
    /\ ~last.cpu.stop
    /\ last.opcode = \hC4
    /\ (last.cpu.f \div 128) % 2 = 1
    /\ result = "Ok"
    /\ cpu.pc = last.cpu.pc + 3
    /\ cpu.sp = last.cpu.sp

\* C9: a tick of JP nn (0xC3) sets PC to (hi << 8) | lo, lo being the byte
\* after the opcode and hi the one after that, whatever the flags; no other
\* register changes.
JpNnSetsPc ==
    (last.name = "tick" /\ ~last.cpu.stop /\ last.opcode = \hC3) =>
        LET p == last.cpu.pc
            lo == Read(last.ram, (p + 1) % 65536)
            hi == Read(last.ram, (p + 2) % 65536)
        IN  /\ cpu.pc = hi * 256 + lo
            /\ \A k \in {"a", "b", "c", "d", "e", "f", "h", "l", "sp",
                         "ime", "halt", "stop"} : cpu[k] = last.cpu[k]

JpNnSetsPcSeen ==
    /\ last.name = "tick"
    /\ ~last.cpu.stop
    /\ last.opcode = \hC3
    /\ last.cpu.pc = \h0100
    /\ Read(last.ram, \h0101) = \h00
    /\ Read(last.ram, \h0102) = \h02
    /\ cpu.pc = \h0200

\* C10: a tick of a load leaves PC past exactly the operand bytes: LD r,r'
\* (and LD r,(HL), LD (HL),r) at + 1, LD r,n and LD (HL),n at + 2 with r the
\* byte after the opcode, LD rr,nn, LD SP,nn, LD A,(nn) and LD (nn),A at + 3
\* with the first operand byte the low byte; the flags and every register
\* that is not the destination are unchanged.
LoadsConsumeTheirOperands ==
    (last.name = "tick" /\ ~last.cpu.stop) =>
        LET op == last.opcode
            old == last.cpu
            p == old.pc
            lo == Read(last.ram, (p + 1) % 65536)
            hi == Read(last.ram, (p + 2) % 65536)
            nn == hi * 256 + lo
            hl == old.h * 256 + old.l
            reg == <<"b", "c", "d", "e", "h", "l", "none", "a">>
            Kept(dest) ==
                \A k \in {"a", "b", "c", "d", "e", "f", "h", "l", "sp"} \ dest :
                    cpu[k] = old[k]
            At(n) == cpu.pc = (p + n) % 65536
            Held(addr, val) ==
                addr \in \h8000 .. \hFE9F \cup \hFF00 .. \hFFFF =>
                    Read(ram, addr) = val
        IN  /\ (op \in \h40 .. \h7F /\ op # \h76) =>
                LET dst == reg[(op - \h40) \div 8 + 1]
                    src == reg[(op % 8) + 1]
                IN  /\ At(1)
                    /\ Kept({dst})
                    /\ (dst # "none" /\ src # "none") => cpu[dst] = old[src]
                    /\ (dst # "none" /\ src = "none") =>
                           cpu[dst] = Read(last.ram, hl)
                    /\ dst = "none" => Held(hl, old[src])
            /\ op \in {\h06, \h0E, \h16, \h1E, \h26, \h2E, \h3E} =>
                LET dst == reg[(op - \h06) \div 8 + 1]
                IN  At(2) /\ Kept({dst}) /\ cpu[dst] = lo
            /\ op = \h36 => At(2) /\ Kept({}) /\ Held(hl, lo)
            /\ op = \h01 => At(3) /\ Kept({"b", "c"}) /\ cpu.b = hi /\ cpu.c = lo
            /\ op = \h11 => At(3) /\ Kept({"d", "e"}) /\ cpu.d = hi /\ cpu.e = lo
            /\ op = \h21 => At(3) /\ Kept({"h", "l"}) /\ cpu.h = hi /\ cpu.l = lo
            /\ op = \h31 => At(3) /\ Kept({"sp"}) /\ cpu.sp = nn
            /\ op = \hFA => At(3) /\ Kept({"a"}) /\ cpu.a = Read(last.ram, nn)
            /\ op = \hEA => At(3) /\ Kept({}) /\ Held(nn, old.a)

LoadsConsumeTheirOperandsSeen ==
    /\ last.name = "tick"
    /\ ~last.cpu.stop
    /\ last.opcode = \h3E
    /\ last.cpu.pc = \h0100
    /\ Read(last.ram, \h0101) = \h42
    /\ last.cpu.a # \h42
    /\ cpu.a = \h42
    /\ cpu.pc = \h0102

\* C11: add(a, b) returns (a + b) mod 256 and leaves Carry set iff
\* a + b >= 256, Half-Carry set iff (a & 0xF) + (b & 0xF) >= 0x10, Subtract
\* cleared and Zero set iff the result is 0.
AddResultAndFlags ==
    last.name = "add" =>
        LET a == last.cpu.a
            b == last.cpu.b
        IN  /\ ret = (a + b) % 256
            /\ ((cpu.f \div 16) % 2 = 1) <=> (a + b >= 256)
            /\ ((cpu.f \div 32) % 2 = 1) <=> ((a % 16) + (b % 16) >= 16)
            /\ (cpu.f \div 64) % 2 = 0
            /\ ((cpu.f \div 128) % 2 = 1) <=> (ret = 0)

AddResultAndFlagsSeen ==
    /\ last.name = "add"
    /\ last.cpu.a = \hF1
    /\ last.cpu.b = \h0F
    /\ last.cpu.f = \h70
    /\ ret = 0
    /\ cpu.f = \hB0

\* C12: add_with_carry(a, b), with c the Carry flag before the call, returns
\* (a + b + c) mod 256 and leaves Carry set iff a + b + c >= 256 and
\* Half-Carry set iff (a & 0xF) + (b & 0xF) + c >= 0x10.
AddWithCarryTakesCarryIn ==
    last.name = "add_with_carry" =>
        LET a == last.cpu.a
            b == last.cpu.b
            c == (last.cpu.f \div 16) % 2
        IN  /\ ret = (a + b + c) % 256
            /\ ((cpu.f \div 16) % 2 = 1) <=> (a + b + c >= 256)
            /\ ((cpu.f \div 32) % 2 = 1) <=> ((a % 16) + (b % 16) + c >= 16)

\* C13: do_swap(v) is v with its nibbles exchanged, do_swap of that is v
\* again, Zero is set iff the result is 0 and Subtract, Half-Carry and
\* Carry are cleared.
SwapExchangesNibbles ==
    last.name = "do_swap" =>
        LET v == last.cpu.a
        IN  /\ ret = (v % 16) * 16 + (v \div 16)
            /\ last.twice = v
            /\ ((cpu.f \div 128) % 2 = 1) <=> (ret = 0)
            /\ (cpu.f \div 16) % 8 = 0

SwapExchangesNibblesSeen ==
    /\ last.name = "do_swap"
    /\ last.cpu.a = \hA5
    /\ last.cpu.f = \h70
    /\ ret = \h5A
    /\ last.twice = \hA5
    /\ cpu.f = 0

\* C19: SecondOpType::from_u8(s) is selected by bits 7-6 of s: 00
\* rotate/shift, 01 bit-test, 10 bit-reset, 11 bit-set.
SecondOpTypeFromTopBits ==
    last.name = "from_u8" =>
        ret = <<"ROTATE_SHIFT", "BIT_CHECK", "RESET", "SET">>[
                  (last.cpu.a \div 64) + 1]

\* C14: in every state ticks reach, the low nibble of F is zero.
FLowNibbleIsZero == cpu.f % 16 = 0

FLowNibbleIsZeroSeen ==
    /\ last.name = "tick"
    /\ ~last.cpu.stop
    /\ last.opcode = \hF1
    /\ Read(last.ram, (last.cpu.sp + 1) % 65536) % 16 # 0
    /\ result = "Ok"
    /\ cpu.sp = (last.cpu.sp + 2) % 65536
    /\ cpu.f % 16 = 0

\* C15: PC and SP are always in 0..65535 and wrap: a fetch at PC = 0xFFFF
\* leaves PC = 0x0000, a push at SP = 0x0000 writes at 0xFFFF and 0xFFFE,
\* INC SP at 0xFFFF gives 0x0000 and DEC SP at 0x0000 gives 0xFFFF.
PcAndSpWrap ==
    /\ cpu.pc \in 0 .. 65535
    /\ cpu.sp \in 0 .. 65535
    /\ (last.name = "tick" /\ ~last.cpu.stop) =>
        LET op == last.opcode
            old == last.cpu
        IN  /\ (old.pc = \hFFFF /\ (op = \h00 \/ op \notin OpCodes)) =>
                   cpu.pc = 0
            /\ (old.sp = 0 /\ op = \hC5) =>
                /\ cpu.sp = \hFFFE
                /\ Read(ram, \hFFFF) = old.c
                /\ Read(ram, \hFFFE) = old.b
            /\ (old.sp = \hFFFF /\ op = \h33) => cpu.sp = 0
            /\ (old.sp = 0 /\ op = \h3B) => cpu.sp = \hFFFF

PcAndSpWrapSeen ==
    /\ last.name = "tick"
    /\ ~last.cpu.stop
    /\ last.opcode = \hC5
    /\ last.cpu.pc = \hFFFF
    /\ last.cpu.sp = 0
    /\ cpu.pc = 0
    /\ cpu.sp = \hFFFE
    /\ Read(ram, \hFFFF) = \h50
    /\ Read(ram, \hFFFE) = \h01

\* C16: in every tick the number of Timing Hook calls equals the number of
\* reads and writes of the memory image.
OneSyncPerAccess ==
    (last.name = "tick" /\ result \in {"Ok", "Err"}) => Len(hook) = acc

\* C17: the clock never decreases, a tick taken while not stopped adds at
\* least 4 to it, and the values passed to the Timing Hook are
\* non-decreasing: within a tick, and from one tick to the next since they
\* lie between the clock before the tick and the clock after it.
ClockNeverDecreases ==
    last.name = "tick" =>
        /\ cpu.clock >= last.cpu.clock
        /\ (~last.cpu.stop /\ result # "Panic") =>
               cpu.clock >= last.cpu.clock + 4
        /\ \A i \in 1 .. Len(hook) :
               last.cpu.clock <= hook[i] /\ hook[i] <= cpu.clock
        /\ \A i \in 1 .. Len(hook) - 1 : hook[i] <= hook[i + 1]

ClockNeverDecreasesSeen ==
    /\ last.name = "tick"
    /\ ~last.cpu.stop
    /\ Len(hook) >= 2
    /\ hook[1] = last.cpu.clock + 4
    /\ hook[2] = last.cpu.clock + 8
    /\ cpu.clock = last.cpu.clock + 8

\* C18: IME is true at power-on; a tick that executes EI or RETI leaves it
\* true, one that executes DI leaves it false, and every other tick leaves
\* it as it was (so it is false iff the last of EI, DI, RETI executed was
\* DI).
ImeFollowsEiDiReti ==
    /\ (last = NoCall /\ cpu.pc = \h0100 /\ cpu.clock = 0) => cpu.ime
    /\ last.name = "tick" =>
        LET op == last.opcode
            executed == ~last.cpu.stop /\ op \in OpCodes /\ result # "Panic"
        IN  cpu.ime = IF executed /\ op \in {\hF3, \hD9} THEN TRUE
                      ELSE IF executed /\ op = \hFB THEN FALSE
                      ELSE last.cpu.ime

ImeFollowsEiDiRetiSeen ==
    /\ last.name = "tick"
    /\ log = <<\hFB, \h00>>
    /\ last.cpu.pc = \h0101
    /\ result = "Ok"
    /\ ~cpu.ime

\* C20: a tick of POP BC, POP DE, POP HL or POP AF stores the two popped
\* bytes in the pair its opcode names (the byte at SP in the first register,
\* the next in the second) and leaves the other 8-bit registers unchanged.
PopRoutesToNamedPair ==
    (last.name = "tick" /\ ~last.cpu.stop
        /\ last.opcode \in {\hC1, \hD1, \hE1, \hF1}) =>
        LET op == last.opcode
            old == last.cpu
            first == Read(last.ram, old.sp)
            second == Read(last.ram, (old.sp + 1) % 65536)
            pair == CASE op = \hC1 -> <<"b", "c">>
                      [] op = \hD1 -> <<"d", "e">>
                      [] op = \hE1 -> <<"h", "l">>
                      [] op = \hF1 -> <<"a", "f">>
        IN  /\ cpu[pair[1]] = first
            /\ cpu[pair[2]] = second
            /\ \A k \in {"a", "b", "c", "d", "e", "f", "h", "l"}
                        \ {pair[1], pair[2]} : cpu[k] = old[k]

RunTerminates ==
    /\ [](steps <= RunBudget)
    /\ <>(run.at # "loop")

RunTerminatesSeen ==
    /\ run.at = "returned"
    /\ run.max_ticks = 0
    /\ steps = RunBudget
    /\ result = "Ok"
    /\ ~cpu.stop
    /\ \A i \in 1 .. Len(log) : log[i] \notin {\h10, \h76}

\* C23: in DmgBoy::run no tick is performed after a tick that returned an
\* error, and none after a tick that left the CPU stopped: no iteration of
\* the loop starts from such a state.
NoTickAfterErrorOrStop ==
    [][~(result = "Err" \/ cpu.stop)]_vars

\* C24: for every address v and amount n, post_inc(n) returns v and
\* leaves the receiver at (v + n) mod 65536; post_dec(n) returns v and
\* leaves the receiver at (v - n) mod 65536.
PostIncDecReturnOldValue ==
    /\ last.name = "post_inc" =>
           /\ ret = last.v
           /\ cpu.pc = (last.v + last.amt) % 65536
    /\ last.name = "post_dec" =>
           /\ ret = last.v
           /\ cpu.pc = (last.v + 65536 - last.amt) % 65536

PostIncDecReturnOldValueSeen ==
    /\ last.name = "post_inc"
    /\ last.v = \hFFFF
    /\ last.amt = \h0002
    /\ ret = \hFFFF
    /\ cpu.pc = \h0001

\* C25: every byte other than 0xD3, 0xDB, 0xDD, 0xE3, 0xE4, 0xEB, 0xEC,
\* 0xED, 0xF4, 0xFC and 0xFD decodes to an Operation variant, so a tick on
\* such a byte does not return a decode error.
OnlyUndefinedBytesFailToDecode ==
    (last.name = "tick" /\ ~last.cpu.stop
        /\ last.opcode \notin {\hD3, \hDB, \hDD, \hE3, \hE4, \hEB, \hEC,
                               \hED, \hF4, \hFC, \hFD}) =>
        result # "Err"

\* C26: a CALL nn at address p followed at once by a RET at the call
\* target leaves PC at (p + 3) mod 65536 and SP at its value before the
\* CALL, when the two stack bytes lie in work RAM or high RAM.
CallThenRetComesBack ==
    (/\ last.name = "tick"
     /\ last.opcode = \hC9
     /\ last.prev.name = "tick"
     /\ last.prev.opcode = \hCD
     /\ ~last.prev.cpu.stop
     /\ result = "Ok"
     /\ \A k \in 1 .. 2 :
            LET x == (last.prev.cpu.sp + 65536 - k) % 65536
            IN  x \in \hC000 .. \hDDFF \/ x \in \hFF80 .. \hFFFE) =>
        /\ cpu.pc = (last.prev.cpu.pc + 3) % 65536
        /\ cpu.sp = last.prev.cpu.sp

\* C27: a tick of a CB-prefixed rotate/shift instruction (second byte
\* 0x00-0x3F) applies the sub-operation selected by bits 5-3 (RLC, RRC, RL,
\* RR, SLA, SRA, SWAP, SRL) to the operand selected by bits 2-0 (B, C, D,
\* E, H, L, (HL), A): the operand holds the sub-operation's result and the
\* flags are those of the sub-operation.
CbRotateShiftReachesOperand ==
    (last.name = "tick" /\ ~last.cpu.stop /\ last.opcode = \hCB
        /\ result # "Panic") =>
        LET old == last.cpu
            sop == Read(last.ram, (old.pc + 1) % 65536)
            sub == (sop \div 8) % 8
            reg == sop % 8
            hl == old.h * 256 + old.l
            v == IF reg = 6 THEN Read(last.ram, hl) ELSE old[R8[reg + 1]]
            x == CASE sub = 0 -> DoRlc(old.f, v)
                   [] sub = 1 -> DoRrc(old.f, v)
                   [] sub = 2 -> DoRl(old.f, v)
                   [] sub = 3 -> DoRr(old.f, v)
                   [] sub = 4 -> DoSla(old.f, v)
                   [] sub = 5 -> DoSra(old.f, v)
                   [] sub = 6 -> DoSwap(old.f, v)
                   [] sub = 7 -> DoSrl(old.f, v)
        IN  (sop \in \h00 .. \h3F
                /\ (reg = 6 => hl \in \hC000 .. \hDDFF)) =>
                /\ IF reg = 6 THEN Read(ram, hl) = x.r
                              ELSE cpu[R8[reg + 1]] = x.r
                /\ cpu.f = x.f

\* C28: after do_rlc, do_rl or do_sla on v Carry equals bit 7 of v; after
\* do_rrc, do_rr, do_sra or do_srl Carry equals bit 0 of v; after each of
\* them Zero is set iff the returned result is 0, and Subtract and
\* Half-Carry are clear.
RotateShiftFlags ==
    last.name \in {"do_rlc", "do_rl", "do_sla",
                   "do_rrc", "do_rr", "do_sra", "do_srl"} =>
        LET v == last.cpu.a
            out == IF last.name \in {"do_rlc", "do_rl", "do_sla"}
                   THEN v \div 128
                   ELSE v % 2
        IN  /\ (cpu.f \div 16) % 2 = out
            /\ ((cpu.f \div 128) % 2 = 1) <=> (ret = 0)
            /\ (cpu.f \div 64) % 2 = 0
            /\ (cpu.f \div 32) % 2 = 0
            /\ cpu.f % 16 = 0

RotateShiftFlagsSeen ==
    /\ last.name = "do_sla"
    /\ last.cpu.a = \h80
    /\ last.cpu.f = \h70
    /\ ret = 0
    /\ cpu.f = \h90

\* C29: RL and RR rotate through the Carry flag: with c the Carry flag
\* before the call, do_rl(v) returns ((v << 1) mod 256) | c and do_rr(v)
\* returns (v >> 1) | (c << 7).
RlRrRotateThroughCarry ==
    LET v == last.cpu.a
        c == (last.cpu.f \div 16) % 2
    IN  /\ last.name = "do_rl" => ret = ((v * 2) % 256) + c
        /\ last.name = "do_rr" => ret = (v \div 2) + 128 * c

\* C30: subtract(a, b) returns (a - b) mod 256 and leaves Subtract set,
\* Carry set iff a < b, Half-Carry set iff (a & 0xF) < (b & 0xF), and Zero
\* set iff the result is 0.
SubtractResultAndFlags ==
    last.name = "subtract" =>
        LET a == last.cpu.a
            b == last.cpu.b
        IN  /\ ret = (a + 256 - b) % 256
            /\ (cpu.f \div 64) % 2 = 1
            /\ ((cpu.f \div 16) % 2 = 1) <=> (a < b)
            /\ ((cpu.f \div 32) % 2 = 1) <=> (a % 16 < b % 16)
            /\ ((cpu.f \div 128) % 2 = 1) <=> (ret = 0)
            /\ cpu.f % 16 = 0

SubtractResultAndFlagsSeen ==
    /\ last.name = "subtract"
    /\ last.cpu.a = \h10
    /\ last.cpu.b = \h01
    /\ last.cpu.f = \h90
    /\ ret = \h0F
    /\ cpu.f = \h60

\* C31: increment leaves (v + 1) mod 256 with Half-Carry set iff the low
\* nibble of v is 0xF and Subtract clear; decrement leaves (v - 1) mod 256
\* with Half-Carry set iff the low nibble of v is 0 and Subtract set; in
\* both Zero is set iff the result is 0 and Carry keeps its value.
IncDecResultAndFlags ==
    LET v == last.cpu.a
        old == last.cpu.f
    IN  /\ last.name = "increment" =>
               /\ ret = (v + 1) % 256
               /\ ((cpu.f \div 32) % 2 = 1) <=> (v % 16 = 15)
               /\ (cpu.f \div 64) % 2 = 0
               /\ ((cpu.f \div 128) % 2 = 1) <=> (ret = 0)
               /\ (cpu.f \div 16) % 2 = (old \div 16) % 2
        /\ last.name = "decrement" =>
               /\ ret = (v + 255) % 256
               /\ ((cpu.f \div 32) % 2 = 1) <=> (v % 16 = 0)
               /\ (cpu.f \div 64) % 2 = 1
               /\ ((cpu.f \div 128) % 2 = 1) <=> (ret = 0)
               /\ (cpu.f \div 16) % 2 = (old \div 16) % 2

IncDecResultAndFlagsSeen ==
    /\ last.name = "increment"
    /\ last.cpu.a = \hFF
    /\ last.cpu.f = \h40
    /\ ret = 0
    /\ cpu.f = \hA0

\* C33: DAA with Subtract set, for every A and every Half-Carry / Carry
\* combination, completes without an arithmetic underflow failure and
\* leaves A less 0x06 if Half-Carry was set and less 0x60 if Carry was set
\* (mod 256), Half-Carry clear and Zero set iff the new A is 0.
DaaAfterSubtract ==
    (last.name = "do_daa" /\ (last.cpu.f \div 64) % 2 = 1) =>
        LET a == last.cpu.a
            hc == (last.cpu.f \div 32) % 2
            c == (last.cpu.f \div 16) % 2
        IN  /\ result # "Panic"
            /\ cpu.a = (a + 512 - 6 * hc - 96 * c) % 256
            /\ (cpu.f \div 32) % 2 = 0
            /\ ((cpu.f \div 128) % 2 = 1) <=> (cpu.a = 0)

\* C34: DAA with Subtract clear, for every A and every Half-Carry / Carry
\* combination: 0x06 is added if Half-Carry was set or the low nibble of A
\* is above 9, then 0x60 is added if Carry was set or the value so far is
\* above 0x9F; A becomes the sum mod 256, Carry is set iff the sum exceeded
\* 0xFF, Half-Carry is clear and Zero is set iff the new A is 0.
DaaAfterAdd ==
    (last.name = "do_daa" /\ (last.cpu.f \div 64) % 2 = 0) =>
        LET a == last.cpu.a
            hc == (last.cpu.f \div 32) % 2 = 1
            c == (last.cpu.f \div 16) % 2 = 1
            first == IF hc \/ a % 16 > 9 THEN a + 6 ELSE a
            sum == IF c \/ first > 159 THEN first + 96 ELSE first
        IN  /\ result = "Ok"
            /\ cpu.a = sum % 256
            /\ ((cpu.f \div 16) % 2 = 1) <=> (sum > 255)
            /\ (cpu.f \div 32) % 2 = 0
            /\ ((cpu.f \div 128) % 2 = 1) <=> (cpu.a = 0)
            /\ (cpu.f \div 64) % 2 = 0

DaaAfterAddSeen ==
    /\ last.name = "do_daa"
    /\ last.cpu.a = \h9A
    /\ last.cpu.f = \h20
    /\ cpu.a = \h00
    /\ cpu.f = \h90

\* C32: INC rr / DEC rr (BC, DE, HL) leave the pair (high << 8) | low at
\* (p + 1) mod 65536 / (p - 1) mod 65536 through increment_16 /
\* decrement_16, each undoing the other, and leave F and every other
\* register unchanged.
PairIncDecIsSixteenBit ==
    last.name = "inc_dec_rr" =>
        LET old == last.cpu
            names == CASE last.op \div 16 = 0 -> <<"b", "c">>
                       [] last.op \div 16 = 1 -> <<"d", "e">>
                       [] last.op \div 16 = 2 -> <<"h", "l">>
            p == old[names[1]] * 256 + old[names[2]]
            q == cpu[names[1]] * 256 + cpu[names[2]]
            up == last.op % 16 = 3
        IN  /\ q = (p + (IF up THEN 1 ELSE 65535)) % 65536
            /\ \A k \in DOMAIN cpu \ {names[1], names[2]} : cpu[k] = old[k]
            /\ (/\ last.prev.name = "inc_dec_rr"
                /\ last.prev.op \div 16 = last.op \div 16
                /\ last.prev.op % 16 # last.op % 16) =>
                   q = last.prev.cpu[names[1]] * 256
                           + last.prev.cpu[names[2]]

PairIncDecIsSixteenBitSeen ==
    /\ last.name = "inc_dec_rr"
    /\ last.op = \h0B
    /\ last.prev.name = "inc_dec_rr"
    /\ last.prev.op = \h03
    /\ last.prev.cpu.b = \h00
    /\ last.prev.cpu.c = \hFF
    /\ last.cpu.b = \h01
    /\ last.cpu.c = \h00
    /\ cpu.b = \h00
    /\ cpu.c = \hFF
    /\ cpu.f = \hF0

\* C35: a write to an address w in working RAM 0xC000-0xDFFF changes at
\* most the byte at w and the byte at one address of the echo region
\* 0xE000-0xFDFF; no byte from 0xFE00 up (sprite attribute table, unusable
\* region, I/O block, high RAM, interrupt-enable register) is changed.
WorkRamWriteStaysInRamAndEcho ==
    (last.name = "write" /\ last.addr \in \hC000 .. \hDFFF) =>
        LET changed == {x \in DOMAIN ram \cup DOMAIN last.ram :
                            Read(ram, x) # Read(last.ram, x)}
        IN  /\ changed \subseteq {last.addr} \cup (\hE000 .. \hFDFF)
            /\ Cardinality(changed \ {last.addr}) <= 1

\* C36: tick does not consult the halted flag: from the state a tick
\* started in (not stopped) and from the same state with halted inverted,
\* one tick gives the same result and states that again differ in halted
\* at most; a tick taken after HALT fetches and executes the instruction
\* at PC.
TickIgnoresHalted ==
    (last.name = "tick" /\ ~last.cpu.stop) =>
        LET twin == TickOf(Machine([last.cpu EXCEPT !.halt = ~@],
                                   last.ram, BusNew, <<>>))
        IN  IF result = "Panic" THEN twin.ovf
            ELSE /\ twin.res = result
                 /\ \A k \in CpuFields \ {"halt"} : twin[k] = cpu[k]
                 /\ twin.ram = ram
                 /\ twin.hook = hook
                 /\ twin.acc = acc

TickIgnoresHaltedSeen ==
    /\ last.name = "tick"
    /\ last.cpu.halt
    /\ last.prev.name = "tick"
    /\ last.prev.opcode = \h76
    /\ last.opcode = \h42
    /\ last.cpu.b = \h01
    /\ last.cpu.d = \h80
    /\ result = "Ok"
    /\ cpu.b = \h80
    /\ cpu.pc = (last.cpu.pc + 1) % 65536
    /\ cpu.clock = last.cpu.clock + 4

\* C37: a tick of ADD HL,BC / ADD HL,DE / ADD HL,HL leaves
\* (H << 8) | L = (HL + rr) mod 65536: the carry out of the low-byte
\* addition is added into the high byte.
AddHlIsSixteenBit ==
    (last.name = "tick" /\ ~last.cpu.stop /\ result # "Panic"
        /\ last.opcode \in {\h09, \h19, \h29}) =>
        LET old == last.cpu
            hl == old.h * 256 + old.l
            rr == CASE last.opcode = \h09 -> old.b * 256 + old.c
                    [] last.opcode = \h19 -> old.d * 256 + old.e
                    [] last.opcode = \h29 -> hl
        IN  cpu.h * 256 + cpu.l = (hl + rr) % 65536

\* C38: a tick of CP r, CP n or CP (HL) leaves A unchanged and, whatever
\* the Carry flag was, leaves Zero set iff A equals the operand, Carry set
\* iff A is less than the operand, and Subtract set.
CpComparesAWithOperand ==
    (last.name = "tick" /\ ~last.cpu.stop
        /\ last.opcode \in (\hB8 .. \hBF) \cup {\hFE}) =>
        LET old == last.cpu
            op == last.opcode
            val == IF op = \hFE THEN Read(last.ram, (old.pc + 1) % 65536)
                   ELSE IF op = \hBE THEN Read(last.ram, old.h * 256 + old.l)
                   ELSE old[R8[(op % 8) + 1]]
        IN  /\ result = "Ok"
            /\ cpu.a = old.a
            /\ ((cpu.f \div 128) % 2 = 1) <=> (old.a = val)
            /\ ((cpu.f \div 16) % 2 = 1) <=> (old.a < val)
            /\ (cpu.f \div 64) % 2 = 1

CpComparesAWithOperandSeen ==
    /\ last.name = "tick"
    /\ last.opcode = \hBF
    /\ last.cpu.a = \h5A
    /\ last.cpu.f = \h10
    /\ result = "Ok"
    /\ cpu.a = \h5A
    /\ cpu.f = \hC0

\* C39: a taken JR (JR e, or JR cc,e with cc true) with displacement byte
\* e at opcode address p sets PC to (p + 2 + s) mod 65536, s being e read
\* as a signed 8-bit value in -128..127; e = 0xFE jumps back to p.
JrAddsSignedDisplacement ==
    (last.name = "tick" /\ ~last.cpu.stop
        /\ last.opcode \in {\h18, \h20, \h28, \h30, \h38}) =>
        LET old == last.cpu
            p == old.pc
            e == Read(last.ram, (p + 1) % 65536)
            s == IF e >= 128 THEN e - 256 ELSE e
            z == (old.f \div 128) % 2 = 1
            c == (old.f \div 16) % 2 = 1
            taken == CASE last.opcode = \h18 -> TRUE
                       [] last.opcode = \h20 -> ~z
                       [] last.opcode = \h28 -> z
                       [] last.opcode = \h30 -> ~c
                       [] last.opcode = \h38 -> c
        IN  /\ result = "Ok"
            /\ taken => cpu.pc = (p + 2 + s + 65536) % 65536
            /\ (taken /\ e = \hFE) => cpu.pc = p

JrAddsSignedDisplacementSeen ==
    /\ last.name = "tick"
    /\ last.opcode = \h38
    /\ last.cpu.f = \h10
    /\ last.cpu.pc = \h0200
    /\ Read(last.ram, \h0201) = \hFE
    /\ result = "Ok"
    /\ cpu.pc = \h0200

\* C40: after every call sync(count) the HardwareBus's recorded cycle
\* count equals count; so after a tick that made a hook call the bus's
\* cycle count equals the clock value passed to the last such call.
BusRecordsLastSync ==
    (last.name = "tick" /\ result # "Panic" /\ Len(hook) > 0) =>
        bus = hook[Len(hook)]

====
